---------------------------- MODULE Spec2Model ----------------------------
(***************************************************************************)
(* Model of webgpu_engine::compute::nodes::NodeGraph: node registration,   *)
(* socket wiring, the topological build of connect_node_signals_and_slots  *)
(* (Kahn's algorithm), the signal/slot chain it wires, and graph runs with *)
(* completion and failure propagation; and of the two tile containers the  *)
(* nodes share, the TileSlotCache (GpuHashMap) and the TileArrayStorage     *)
(* (TextureArrayComputeTileStorage).                                       *)
(***************************************************************************)
EXTENDS Integers, Sequences, FiniteSets, TLC

\* ------------------------------------------------------------------ bounds
NumNodes == 3       \* Node instances that can be created
NumNames == 3       \* distinct node names available to add_node
NumIn == 2          \* input sockets per node
NumOut == 1         \* output sockets per node
MaxConnections == 3 \* connect() calls per graph
MaxRuns == 2        \* NodeGraph::run() calls per graph
NumMessages == 2    \* distinct failure messages a node can report
Capacity == 2       \* capacity C of the TileSlotCache
NumTiles == 4       \* distinct tile identities
MaxRequest == 3     \* tile identities passed to one TileSlotCache build
MaxReadBacks == 3   \* read_back_async requests submitted to one storage

\* ------------------------------------------------------- program constants
HalfMod == 65536         \* a uint32_t in_degrees counter is kept as two 16-bit
                         \* halves hi * HalfMod + lo (TLC integers are 32-bit signed)
Graph == 0               \* the NodeGraph itself as receiver of a signal
NodeCapacity == 1024     \* size_t capacity of the nodes a factory creates
NoNode == 0              \* no node: a call that did not return, a pointer not set
Empty == 0               \* the key of an unused entry of the cache's key array
Unassigned == 0          \* the tile identity recorded for a layer that holds no tile

Names == {100 + k : k \in 1..NumNames}
Messages == 1..NumMessages
TileIds == 1..NumTiles
Slots == 0..(Capacity - 1)

VARIABLES
    pc,                   \* "build", "ready", "fatal" (qFatal), "assert_failed"
    m_nodes,              \* NodeGraph::m_nodes: name -> Node instance
    connections,          \* socket connections in the order connect() made them
    topological_ordering, \* the ordering the build computed
    sig_run_triggered,    \* slots connected to NodeGraph::run_triggered
    sig_run_completed,    \* connections of Node::run_completed, in connect order
    sig_run_failed,       \* connections of Node::run_failed
    nstate,               \* run state of every node
    runs,                 \* number of NodeGraph::run() calls so far
    started,              \* nodes whose run was invoked in the current run, in order
    completed_in_run,     \* nodes that raised run_completed in the current run
    node_failed,          \* NodeRunFailureInfo raised by nodes in the current run
    graph_completed,      \* NodeGraph::run_completed emissions in the current run
    graph_failures,       \* GraphRunFailureInfo emitted in the current run
    overlap,              \* run() was issued while a run was in flight
    rerun_while_running,  \* a node's run was invoked while it was Running
    prev_failed_at,       \* length of started when the previous run failed, else 0
    published,            \* per node: the run in which it last published its outputs
    cache,                \* TileSlotCache: the key array and the value array
    request,              \* tile identities of the latest cache build, in order
    prev_request,         \* tile identities of the build before it
    find_result,          \* what the latest find call returned, and for which id
    m_layer_index_to_tile_id, \* TextureArrayComputeTileStorage: layer -> tile identity
    m_read_back_states,   \* queue of ReadBackState of the outstanding read-backs
    submitted,            \* every read_back_async request so far, in call order
    invoked,              \* every callback invocation so far, in order
    last_op,              \* the latest store or clear call and the layer map before it
    last_add,             \* the latest add_node call: its name, what it returned, and
                          \* whether the name was already registered
    factory,              \* the pipeline factory that assembled the graph, if any
    m_output,             \* the four output pointers m_output_*_ptr of the graph
    output_read,          \* the latest call of an output accessor and what it returned
    node_output           \* per node: the tile identities its published outputs hold

vars == <<pc, m_nodes, connections, topological_ordering, sig_run_triggered,
          sig_run_completed, sig_run_failed, nstate, runs, started,
          completed_in_run, node_failed, graph_completed, graph_failures,
          overlap, rerun_while_running, prev_failed_at, published,
          cache, request, prev_request, find_result,
          m_layer_index_to_tile_id, m_read_back_states, submitted, invoked, last_op,
          last_add, factory, m_output, output_read, node_output>>

buildVars == <<m_nodes, connections>>
addVars == <<last_add>>
factoryVars == <<factory, m_output, output_read>>
dataVars == <<node_output>>
wiringVars == <<topological_ordering, sig_run_triggered, sig_run_completed,
                sig_run_failed>>
runVars == <<nstate, runs, started, completed_in_run, node_failed,
             graph_completed, graph_failures, overlap, rerun_while_running,
             prev_failed_at, published>>
graphVars == <<pc, buildVars, addVars, factoryVars, dataVars, wiringVars, runVars>>
cacheVars == <<cache, request, prev_request, find_result>>
layerVars == <<m_layer_index_to_tile_id, last_op>>
readBackVars == <<m_read_back_states, submitted, invoked>>
storageVars == <<layerVars, readBackVars>>
tileVars == <<cacheVars, storageVars>>

\* ----------------------------------------------------------------- helpers
Range(s) == {s[i] : i \in 1..Len(s)}

Perms(S) == {f \in [1..Cardinality(S) -> S] : \A x \in S : \E i \in DOMAIN f : f[i] = x}

IsPrefix(s, t) == Len(s) <= Len(t) /\ \A i \in 1..Len(s) : s[i] = t[i]

\* a set of nodes as a sequence
RECURSIVE SetToSeq(_)
SetToSeq(S) ==
    IF S = {} THEN <<>>
    ELSE LET x == CHOOSE y \in S : \A z \in S : y <= z
         IN <<x>> \o SetToSeq(S \ {x})

\* The Node instances owned by the graph.
Registered == {m_nodes[name] : name \in DOMAIN m_nodes}

\* ------------------------------------------------------ pipeline factories
NoFactory == "none"      \* the graph was not assembled by a pipeline factory

\* NodeGraph::create_normal_compute_graph: its add_node calls (the variable bound to
\* the returned node, the registered name, the node class), its connect calls
\* and its assignments to the output pointers, in source order
create_normal_compute_graph ==
    [nodes |-> <<
        [var |-> "tile_select_node", name |-> "select_tiles_node", kind |-> "SelectTilesNode"],
        [var |-> "height_request_node", name |-> "request_height_node", kind |-> "RequestTilesNode"],
        [var |-> "hash_map_node", name |-> "hashmap_node", kind |-> "CreateHashMapNode"],
        [var |-> "normal_compute_node", name |-> "compute_normals_node", kind |-> "ComputeNormalsNode"],
        [var |-> "upsample_textures_node", name |-> "upsample_textures_node", kind |-> "UpsampleTexturesNode"],
        [var |-> "downsample_tiles_node", name |-> "downsample_tiles_node", kind |-> "DownsampleTilesNode"] >>,
     connects |-> <<
        [out_var |-> "tile_select_node", out_socket |-> "tile ids", in_var |-> "height_request_node", in_socket |-> "tile ids"],
        [out_var |-> "tile_select_node", out_socket |-> "tile ids", in_var |-> "hash_map_node", in_socket |-> "tile ids"],
        [out_var |-> "height_request_node", out_socket |-> "tile data", in_var |-> "hash_map_node", in_socket |-> "texture data"],
        [out_var |-> "tile_select_node", out_socket |-> "tile ids", in_var |-> "normal_compute_node", in_socket |-> "tile ids"],
        [out_var |-> "hash_map_node", out_socket |-> "hash map", in_var |-> "normal_compute_node", in_socket |-> "hash map"],
        [out_var |-> "hash_map_node", out_socket |-> "textures", in_var |-> "normal_compute_node", in_socket |-> "height textures"],
        [out_var |-> "normal_compute_node", out_socket |-> "normal textures", in_var |-> "upsample_textures_node", in_socket |-> "source textures"],
        [out_var |-> "tile_select_node", out_socket |-> "tile ids", in_var |-> "downsample_tiles_node", in_socket |-> "tile ids"],
        [out_var |-> "normal_compute_node", out_socket |-> "hash map", in_var |-> "downsample_tiles_node", in_socket |-> "hash map"],
        [out_var |-> "normal_compute_node", out_socket |-> "normal textures", in_var |-> "downsample_tiles_node", in_socket |-> "textures"] >>,
     outputs |-> <<
        [ptr |-> "m_output_hash_map_ptr", var |-> "downsample_tiles_node", member |-> "hash_map"],
        [ptr |-> "m_output_texture_storage_ptr", var |-> "downsample_tiles_node", member |-> "texture_storage"],
        [ptr |-> "m_output_hash_map_ptr_2", var |-> "downsample_tiles_node", member |-> "hash_map"],
        [ptr |-> "m_output_texture_storage_ptr_2", var |-> "downsample_tiles_node", member |-> "texture_storage"] >>]

\* NodeGraph::create_normal_with_snow_compute_graph: its add_node calls (the variable bound to
\* the returned node, the registered name, the node class), its connect calls
\* and its assignments to the output pointers, in source order
create_normal_with_snow_compute_graph ==
    [nodes |-> <<
        [var |-> "tile_select_node", name |-> "select_tiles_node", kind |-> "SelectTilesNode"],
        [var |-> "height_request_node", name |-> "request_height_node", kind |-> "RequestTilesNode"],
        [var |-> "hash_map_node", name |-> "create_hashmap_node", kind |-> "CreateHashMapNode"],
        [var |-> "normal_compute_node", name |-> "compute_normals_node", kind |-> "ComputeNormalsNode"],
        [var |-> "snow_compute_node", name |-> "compute_snow_node", kind |-> "ComputeSnowNode"],
        [var |-> "upsample_textures_node", name |-> "upsample_textures_node", kind |-> "UpsampleTexturesNode"],
        [var |-> "upsample_snow_textures_node", name |-> "upsample_snow_textures_node", kind |-> "UpsampleTexturesNode"],
        [var |-> "downsample_snow_tiles_node", name |-> "downsample_tiles_node", kind |-> "DownsampleTilesNode"],
        [var |-> "downsample_tiles_node", name |-> "downsample_snow_tiles_node", kind |-> "DownsampleTilesNode"] >>,
     connects |-> <<
        [out_var |-> "tile_select_node", out_socket |-> "tile ids", in_var |-> "height_request_node", in_socket |-> "tile ids"],
        [out_var |-> "tile_select_node", out_socket |-> "tile ids", in_var |-> "hash_map_node", in_socket |-> "tile ids"],
        [out_var |-> "height_request_node", out_socket |-> "tile data", in_var |-> "hash_map_node", in_socket |-> "texture data"],
        [out_var |-> "tile_select_node", out_socket |-> "tile ids", in_var |-> "normal_compute_node", in_socket |-> "tile ids"],
        [out_var |-> "hash_map_node", out_socket |-> "hash map", in_var |-> "normal_compute_node", in_socket |-> "hash map"],
        [out_var |-> "hash_map_node", out_socket |-> "textures", in_var |-> "normal_compute_node", in_socket |-> "height textures"],
        [out_var |-> "tile_select_node", out_socket |-> "tile ids", in_var |-> "snow_compute_node", in_socket |-> "tile ids"],
        [out_var |-> "hash_map_node", out_socket |-> "hash map", in_var |-> "snow_compute_node", in_socket |-> "hash map"],
        [out_var |-> "hash_map_node", out_socket |-> "textures", in_var |-> "snow_compute_node", in_socket |-> "height textures"],
        [out_var |-> "snow_compute_node", out_socket |-> "snow textures", in_var |-> "upsample_snow_textures_node", in_socket |-> "source textures"],
        [out_var |-> "tile_select_node", out_socket |-> "tile ids", in_var |-> "downsample_snow_tiles_node", in_socket |-> "tile ids"],
        [out_var |-> "snow_compute_node", out_socket |-> "hash map", in_var |-> "downsample_snow_tiles_node", in_socket |-> "hash map"],
        [out_var |-> "upsample_snow_textures_node", out_socket |-> "output textures", in_var |-> "downsample_snow_tiles_node", in_socket |-> "textures"],
        [out_var |-> "normal_compute_node", out_socket |-> "normal textures", in_var |-> "upsample_textures_node", in_socket |-> "source textures"],
        [out_var |-> "tile_select_node", out_socket |-> "tile ids", in_var |-> "downsample_tiles_node", in_socket |-> "tile ids"],
        [out_var |-> "normal_compute_node", out_socket |-> "hash map", in_var |-> "downsample_tiles_node", in_socket |-> "hash map"],
        [out_var |-> "upsample_textures_node", out_socket |-> "output textures", in_var |-> "downsample_tiles_node", in_socket |-> "textures"] >>,
     outputs |-> <<
        [ptr |-> "m_output_hash_map_ptr", var |-> "downsample_tiles_node", member |-> "hash_map"],
        [ptr |-> "m_output_texture_storage_ptr", var |-> "downsample_tiles_node", member |-> "texture_storage"],
        [ptr |-> "m_output_hash_map_ptr_2", var |-> "downsample_snow_tiles_node", member |-> "hash_map"],
        [ptr |-> "m_output_texture_storage_ptr_2", var |-> "downsample_snow_tiles_node", member |-> "texture_storage"] >>]

\* NodeGraph::create_snow_compute_graph: its add_node calls (the variable bound to
\* the returned node, the registered name, the node class), its connect calls
\* and its assignments to the output pointers, in source order
create_snow_compute_graph ==
    [nodes |-> <<
        [var |-> "tile_select_node", name |-> "select_tiles_node", kind |-> "SelectTilesNode"],
        [var |-> "height_request_node", name |-> "request_height_node", kind |-> "RequestTilesNode"],
        [var |-> "hash_map_node", name |-> "hashmap_node", kind |-> "CreateHashMapNode"],
        [var |-> "snow_compute_node", name |-> "compute_snow_node", kind |-> "ComputeSnowNode"],
        [var |-> "downsample_tiles_node", name |-> "downsample_tiles_node", kind |-> "DownsampleTilesNode"] >>,
     connects |-> <<
        [out_var |-> "tile_select_node", out_socket |-> "tile ids", in_var |-> "height_request_node", in_socket |-> "tile ids"],
        [out_var |-> "tile_select_node", out_socket |-> "tile ids", in_var |-> "hash_map_node", in_socket |-> "tile ids"],
        [out_var |-> "height_request_node", out_socket |-> "tile data", in_var |-> "hash_map_node", in_socket |-> "texture data"],
        [out_var |-> "tile_select_node", out_socket |-> "tile ids", in_var |-> "snow_compute_node", in_socket |-> "tile ids"],
        [out_var |-> "hash_map_node", out_socket |-> "hash map", in_var |-> "snow_compute_node", in_socket |-> "hash map"],
        [out_var |-> "hash_map_node", out_socket |-> "textures", in_var |-> "snow_compute_node", in_socket |-> "height textures"],
        [out_var |-> "tile_select_node", out_socket |-> "tile ids", in_var |-> "downsample_tiles_node", in_socket |-> "tile ids"],
        [out_var |-> "snow_compute_node", out_socket |-> "hash map", in_var |-> "downsample_tiles_node", in_socket |-> "hash map"],
        [out_var |-> "snow_compute_node", out_socket |-> "snow textures", in_var |-> "downsample_tiles_node", in_socket |-> "textures"] >>,
     outputs |-> <<
        [ptr |-> "m_output_hash_map_ptr", var |-> "downsample_tiles_node", member |-> "hash_map"],
        [ptr |-> "m_output_texture_storage_ptr", var |-> "downsample_tiles_node", member |-> "texture_storage"] >>]

\* NodeGraph::create_avalanche_trajectories_compute_graph: its add_node calls (the variable bound to
\* the returned node, the registered name, the node class), its connect calls
\* and its assignments to the output pointers, in source order
create_avalanche_trajectories_compute_graph ==
    [nodes |-> <<
        [var |-> "target_tile_select_node", name |-> "select_target_tiles_node", kind |-> "SelectTilesNode"],
        [var |-> "source_tile_select_node", name |-> "select_source_tiles_node", kind |-> "SelectTilesNode"],
        [var |-> "height_request_node", name |-> "request_height_node", kind |-> "RequestTilesNode"],
        [var |-> "hash_map_node", name |-> "create_hashmap_node", kind |-> "CreateHashMapNode"],
        [var |-> "normal_compute_node", name |-> "compute_normals_node", kind |-> "ComputeNormalsNode"],
        [var |-> "avalanche_trajectories_compute_node", name |-> "compute_avalanche_trajectories_node", kind |-> "ComputeAvalancheTrajectoriesNode"],
        [var |-> "avalanche_trajectories_buffer_to_texture_compute_node", name |-> "avalanche_trajectories_buffer_to_texture_compute_node", kind |-> "ComputeAvalancheTrajectoriesBufferToTextureNode"],
        [var |-> "upsample_normals_textures_node", name |-> "upsample_textures_node", kind |-> "UpsampleTexturesNode"],
        [var |-> "downsample_trajectory_tiles_node", name |-> "downsample_trajectory_tiles_node", kind |-> "DownsampleTilesNode"],
        [var |-> "downsample_normals_tiles_node", name |-> "downsample_normals_tiles_node", kind |-> "DownsampleTilesNode"] >>,
     connects |-> <<
        [out_var |-> "source_tile_select_node", out_socket |-> "tile ids", in_var |-> "height_request_node", in_socket |-> "tile ids"],
        [out_var |-> "source_tile_select_node", out_socket |-> "tile ids", in_var |-> "hash_map_node", in_socket |-> "tile ids"],
        [out_var |-> "height_request_node", out_socket |-> "tile data", in_var |-> "hash_map_node", in_socket |-> "texture data"],
        [out_var |-> "source_tile_select_node", out_socket |-> "tile ids", in_var |-> "normal_compute_node", in_socket |-> "tile ids"],
        [out_var |-> "hash_map_node", out_socket |-> "hash map", in_var |-> "normal_compute_node", in_socket |-> "hash map"],
        [out_var |-> "hash_map_node", out_socket |-> "textures", in_var |-> "normal_compute_node", in_socket |-> "height textures"],
        [out_var |-> "target_tile_select_node", out_socket |-> "tile ids", in_var |-> "avalanche_trajectories_compute_node", in_socket |-> "tile ids"],
        [out_var |-> "normal_compute_node", out_socket |-> "hash map", in_var |-> "avalanche_trajectories_compute_node", in_socket |-> "hash map"],
        [out_var |-> "normal_compute_node", out_socket |-> "normal textures", in_var |-> "avalanche_trajectories_compute_node", in_socket |-> "normal textures"],
        [out_var |-> "hash_map_node", out_socket |-> "textures", in_var |-> "avalanche_trajectories_compute_node", in_socket |-> "height textures"],
        [out_var |-> "target_tile_select_node", out_socket |-> "tile ids", in_var |-> "avalanche_trajectories_buffer_to_texture_compute_node", in_socket |-> "tile ids"],
        [out_var |-> "avalanche_trajectories_compute_node", out_socket |-> "hash map", in_var |-> "avalanche_trajectories_buffer_to_texture_compute_node", in_socket |-> "hash map"],
        [out_var |-> "avalanche_trajectories_compute_node", out_socket |-> "storage buffer", in_var |-> "avalanche_trajectories_buffer_to_texture_compute_node", in_socket |-> "storage buffer"],
        [out_var |-> "target_tile_select_node", out_socket |-> "tile ids", in_var |-> "downsample_trajectory_tiles_node", in_socket |-> "tile ids"],
        [out_var |-> "avalanche_trajectories_compute_node", out_socket |-> "hash map", in_var |-> "downsample_trajectory_tiles_node", in_socket |-> "hash map"],
        [out_var |-> "avalanche_trajectories_buffer_to_texture_compute_node", out_socket |-> "textures", in_var |-> "downsample_trajectory_tiles_node", in_socket |-> "textures"],
        [out_var |-> "normal_compute_node", out_socket |-> "normal textures", in_var |-> "upsample_normals_textures_node", in_socket |-> "source textures"],
        [out_var |-> "source_tile_select_node", out_socket |-> "tile ids", in_var |-> "downsample_normals_tiles_node", in_socket |-> "tile ids"],
        [out_var |-> "normal_compute_node", out_socket |-> "hash map", in_var |-> "downsample_normals_tiles_node", in_socket |-> "hash map"],
        [out_var |-> "upsample_normals_textures_node", out_socket |-> "output textures", in_var |-> "downsample_normals_tiles_node", in_socket |-> "textures"] >>,
     outputs |-> <<
        [ptr |-> "m_output_hash_map_ptr", var |-> "downsample_normals_tiles_node", member |-> "hash_map"],
        [ptr |-> "m_output_texture_storage_ptr", var |-> "downsample_normals_tiles_node", member |-> "texture_storage"],
        [ptr |-> "m_output_hash_map_ptr_2", var |-> "downsample_trajectory_tiles_node", member |-> "hash_map"],
        [ptr |-> "m_output_texture_storage_ptr_2", var |-> "downsample_trajectory_tiles_node", member |-> "texture_storage"] >>]

\* NodeGraph::create_avalanche_influence_area_compute_graph: its add_node calls (the variable bound to
\* the returned node, the registered name, the node class), its connect calls
\* and its assignments to the output pointers, in source order
create_avalanche_influence_area_compute_graph ==
    [nodes |-> <<
        [var |-> "target_tile_select_node", name |-> "select_target_tiles_node", kind |-> "SelectTilesNode"],
        [var |-> "source_tile_select_node", name |-> "select_source_tiles_node", kind |-> "SelectTilesNode"],
        [var |-> "height_request_node", name |-> "request_height_node", kind |-> "RequestTilesNode"],
        [var |-> "hash_map_node", name |-> "create_hashmap_node", kind |-> "CreateHashMapNode"],
        [var |-> "normal_compute_node", name |-> "compute_normals_node", kind |-> "ComputeNormalsNode"],
        [var |-> "avalanche_influence_area_compute_node", name |-> "compute_area_of_influence_node", kind |-> "ComputeAvalancheInfluenceAreaNode"],
        [var |-> "upsample_normals_textures_node", name |-> "upsample_textures_node", kind |-> "UpsampleTexturesNode"],
        [var |-> "downsample_area_of_influence_tiles_node", name |-> "downsample_area_of_influence_tiles_node", kind |-> "DownsampleTilesNode"],
        [var |-> "downsample_normals_tiles_node", name |-> "downsample_normals_tiles_node", kind |-> "DownsampleTilesNode"] >>,
     connects |-> <<
        [out_var |-> "source_tile_select_node", out_socket |-> "tile ids", in_var |-> "height_request_node", in_socket |-> "tile ids"],
        [out_var |-> "source_tile_select_node", out_socket |-> "tile ids", in_var |-> "hash_map_node", in_socket |-> "tile ids"],
        [out_var |-> "height_request_node", out_socket |-> "tile data", in_var |-> "hash_map_node", in_socket |-> "texture data"],
        [out_var |-> "source_tile_select_node", out_socket |-> "tile ids", in_var |-> "normal_compute_node", in_socket |-> "tile ids"],
        [out_var |-> "hash_map_node", out_socket |-> "hash map", in_var |-> "normal_compute_node", in_socket |-> "hash map"],
        [out_var |-> "hash_map_node", out_socket |-> "textures", in_var |-> "normal_compute_node", in_socket |-> "height textures"],
        [out_var |-> "target_tile_select_node", out_socket |-> "tile ids", in_var |-> "avalanche_influence_area_compute_node", in_socket |-> "tile ids"],
        [out_var |-> "normal_compute_node", out_socket |-> "hash map", in_var |-> "avalanche_influence_area_compute_node", in_socket |-> "hash map"],
        [out_var |-> "normal_compute_node", out_socket |-> "normal textures", in_var |-> "avalanche_influence_area_compute_node", in_socket |-> "normal textures"],
        [out_var |-> "hash_map_node", out_socket |-> "textures", in_var |-> "avalanche_influence_area_compute_node", in_socket |-> "height textures"],
        [out_var |-> "target_tile_select_node", out_socket |-> "tile ids", in_var |-> "downsample_area_of_influence_tiles_node", in_socket |-> "tile ids"],
        [out_var |-> "avalanche_influence_area_compute_node", out_socket |-> "hash map", in_var |-> "downsample_area_of_influence_tiles_node", in_socket |-> "hash map"],
        [out_var |-> "avalanche_influence_area_compute_node", out_socket |-> "influence area textures", in_var |-> "downsample_area_of_influence_tiles_node", in_socket |-> "textures"],
        [out_var |-> "normal_compute_node", out_socket |-> "normal textures", in_var |-> "upsample_normals_textures_node", in_socket |-> "source textures"],
        [out_var |-> "source_tile_select_node", out_socket |-> "tile ids", in_var |-> "downsample_normals_tiles_node", in_socket |-> "tile ids"],
        [out_var |-> "normal_compute_node", out_socket |-> "hash map", in_var |-> "downsample_normals_tiles_node", in_socket |-> "hash map"],
        [out_var |-> "upsample_normals_textures_node", out_socket |-> "output textures", in_var |-> "downsample_normals_tiles_node", in_socket |-> "textures"] >>,
     outputs |-> <<
        [ptr |-> "m_output_hash_map_ptr", var |-> "downsample_normals_tiles_node", member |-> "hash_map"],
        [ptr |-> "m_output_texture_storage_ptr", var |-> "downsample_normals_tiles_node", member |-> "texture_storage"],
        [ptr |-> "m_output_hash_map_ptr_2", var |-> "downsample_area_of_influence_tiles_node", member |-> "hash_map"],
        [ptr |-> "m_output_texture_storage_ptr_2", var |-> "downsample_area_of_influence_tiles_node", member |-> "texture_storage"] >>]

\* The graph SelectTiles -> RequestTiles -> BuildCache -> ComputeNormals: the
\* first four nodes of create_normal_compute_graph with the connections among
\* them (no output pointer is assigned).
normals_scenario_graph ==
    [nodes |-> SubSeq(create_normal_compute_graph.nodes, 1, 4),
     connects |-> SubSeq(create_normal_compute_graph.connects, 1, 6),
     outputs |-> <<>>]

\* the pipeline factories
Factories ==
    {"create_normal_compute_graph",
     "create_normal_with_snow_compute_graph",
     "create_snow_compute_graph",
     "create_avalanche_trajectories_compute_graph",
     "create_avalanche_influence_area_compute_graph"}

\* the body of a factory
FactoryBody(f) ==
    CASE f = "create_normal_compute_graph" -> create_normal_compute_graph
      [] f = "create_normal_with_snow_compute_graph" -> create_normal_with_snow_compute_graph
      [] f = "create_snow_compute_graph" -> create_snow_compute_graph
      [] f = "create_avalanche_trajectories_compute_graph" -> create_avalanche_trajectories_compute_graph
      [] f = "create_avalanche_influence_area_compute_graph" -> create_avalanche_influence_area_compute_graph
      [] f = "normals_scenario_graph" -> normals_scenario_graph

\* a sequence without its repeated elements, first occurrences kept in order
RECURSIVE Distinct(_)
Distinct(s) ==
    IF s = <<>> THEN <<>>
    ELSE LET r == Distinct(SubSeq(s, 1, Len(s) - 1))
         IN IF s[Len(s)] \in Range(r) THEN r ELSE Append(r, s[Len(s)])

\* the variables the factory binds to the nodes it adds
FactoryVariables(body) == {body.nodes[k].var : k \in 1..Len(body.nodes)}

\* the output sockets of the node bound to var that the factory looks up with
\* output_socket(name), in the order of their first use
OutputSocketNames(body, var) ==
    LET cs == SelectSeq(body.connects, LAMBDA c : c.out_var = var)
    IN Distinct([k \in 1..Len(cs) |-> cs[k].out_socket])

\* the input sockets of the node bound to var that the factory looks up with
\* input_socket(name), in the order of their first use
InputSocketNames(body, var) ==
    LET cs == SelectSeq(body.connects, LAMBDA c : c.in_var = var)
    IN Distinct([k \in 1..Len(cs) |-> cs[k].in_socket])

\* the largest number of output (input) sockets the factory uses on one node
FactoryNumOut(body) ==
    CHOOSE m \in 0..Len(body.connects) :
        /\ \A v \in FactoryVariables(body) : Len(OutputSocketNames(body, v)) <= m
        /\ \E v \in FactoryVariables(body) : Len(OutputSocketNames(body, v)) = m

FactoryNumIn(body) ==
    CHOOSE m \in 0..Len(body.connects) :
        /\ \A v \in FactoryVariables(body) : Len(InputSocketNames(body, v)) <= m
        /\ \E v \in FactoryVariables(body) : Len(InputSocketNames(body, v)) = m

\* ------------------------------------------------- node and socket indices
\* Node instances are numbered in the order they are created; the sockets of a
\* node are numbered from 1.
Insts ==
    IF factory = NoFactory THEN 1..NumNodes
    ELSE 1..Len(FactoryBody(factory).nodes)

InSockets ==
    IF factory = NoFactory THEN 1..NumIn
    ELSE 1..FactoryNumIn(FactoryBody(factory))

OutSockets ==
    IF factory = NoFactory THEN 1..NumOut
    ELSE 1..FactoryNumOut(FactoryBody(factory))

\* the four output pointers of NodeGraph and the member each accessor returns
OutputPointers ==
    {"m_output_hash_map_ptr", "m_output_texture_storage_ptr",
     "m_output_hash_map_ptr_2", "m_output_texture_storage_ptr_2"}

\* a pointer no statement has assigned
NotAssigned == [node |-> NoNode, member |-> "not assigned"]

\* ----------------------------------------------------------- TileSlotCache
\* The key array and the value array are parallel arrays of Capacity entries,
\* laid out for open addressing with linear probing.
EmptyTable == [keys |-> [p \in Slots |-> Empty], values |-> [p \in Slots |-> 0]]

\* the requests build can be given: sequences of distinct tile identities
Requests ==
    {r \in UNION {[1..n -> TileIds] : n \in 1..MaxRequest} :
        \A i, j \in DOMAIN r : r[i] = r[j] => i = j}

\* the entry at which the probe sequence of an identity starts
hash(id) == id % Capacity

\* Mutant of NextProbe: the probe does not advance.
NextProbe_Stay(p) == p

\* linear probing: the entry after p, cyclically
NextProbe(p) == (p + 1) % Capacity

\* first unused entry on the probe sequence from p; after a full cycle the
\* probe is back at its start
RECURSIVE ProbeFree(_, _, _)
ProbeFree(keys, p, steps) ==
    IF steps = Capacity \/ keys[p] = Empty THEN p
    ELSE ProbeFree(keys, NextProbe(p), steps + 1)

Insert(tbl, id, slot) ==
    LET p == ProbeFree(tbl.keys, hash(id), 0)
    IN [keys |-> [tbl.keys EXCEPT ![p] = id], values |-> [tbl.values EXCEPT ![p] = slot]]

\* Mutant of HasRoom: identities beyond the capacity are inserted as well.
HasRoom_Always(count) == TRUE

\* capacity policy: an identity is inserted while fewer than Capacity are
HasRoom(count) == count < Capacity

\* the i-th requested identity is given slot i - 1; excess ones are skipped
RECURSIVE BuildLoop(_, _, _)
BuildLoop(tbl, ids, i) ==
    IF i > Len(ids) THEN tbl
    ELSE IF HasRoom(i - 1) THEN BuildLoop(Insert(tbl, ids[i], i - 1), ids, i + 1)
    ELSE BuildLoop(tbl, ids, i + 1)

\* Mutant of BuildStart: a build inserts into the table the previous build left.
BuildStart_Keep(tbl) == tbl

\* a build starts from cleared key and value arrays
BuildStart(tbl) == EmptyTable

build(tbl, ids) == BuildLoop(BuildStart(tbl), ids, 1)

\* a lookup follows the probe sequence for at most Capacity entries
RECURSIVE FindProbe(_, _, _, _)
FindProbe(tbl, id, p, steps) ==
    IF steps = Capacity \/ tbl.keys[p] = Empty THEN [found |-> FALSE, slot_index |-> 0]
    ELSE IF tbl.keys[p] = id THEN [found |-> TRUE, slot_index |-> tbl.values[p]]
    ELSE FindProbe(tbl, id, NextProbe(p), steps + 1)

find(tbl, id) == FindProbe(tbl, id, hash(id), 0)

\* build(tile_ids, payload_source)
CacheBuild(ids) ==
    /\ cache' = build(cache, ids)
    /\ request' = ids
    /\ prev_request' = request
    /\ find_result' = [id |-> Empty, found |-> FALSE, slot_index |-> 0]
    /\ UNCHANGED <<graphVars, storageVars>>

\* find(tile_id) -> (found, slot_index)
CacheFind(id) ==
    /\ LET r == find(cache, id)
       IN find_result' = [id |-> id, found |-> r.found, slot_index |-> r.slot_index]
    /\ UNCHANGED <<cache, request, prev_request>>
    /\ UNCHANGED <<graphVars, storageVars>>

CacheNext ==
    \/ \E ids \in Requests : CacheBuild(ids)
    \/ \E id \in TileIds : CacheFind(id)

\* -------------------------------------------------------- TileArrayStorage
\* The storage has as many layers as the cache it is paired with has slots.
LayersOf(map, id) == {l \in Slots : map[l] = id}

FirstOf(S) == CHOOSE l \in S : \A k \in S : l <= k

\* Mutant of StoreLayer: a store takes the first free layer even when the
\* identity is already assigned to a layer.
StoreLayer_FirstFree(map, id) ==
    IF LayersOf(map, Unassigned) # {} THEN FirstOf(LayersOf(map, Unassigned))
    ELSE FirstOf(LayersOf(map, id))

\* the layer a store writes: the one designated for the identity if it has
\* one, else the first free layer
StoreLayer(map, id) ==
    IF LayersOf(map, id) # {} THEN FirstOf(LayersOf(map, id))
    ELSE FirstOf(LayersOf(map, Unassigned))

\* store(id, data): needs a designated or a free layer
Store(id) ==
    /\ LayersOf(m_layer_index_to_tile_id, id) \cup LayersOf(m_layer_index_to_tile_id, Unassigned) # {}
    /\ m_layer_index_to_tile_id' =
           [m_layer_index_to_tile_id EXCEPT ![StoreLayer(m_layer_index_to_tile_id, id)] = id]
    /\ last_op' = [op |-> "store", id |-> id, before |-> m_layer_index_to_tile_id]
    /\ UNCHANGED <<graphVars, cacheVars, readBackVars>>

\* the layer map after clear(id)
Cleared(map, id) ==
    [l \in Slots |-> IF map[l] = id THEN Unassigned ELSE map[l]]

\* clear(id)
Clear(id) ==
    /\ m_layer_index_to_tile_id' = Cleared(m_layer_index_to_tile_id, id)
    /\ last_op' = [op |-> "clear", id |-> id, before |-> m_layer_index_to_tile_id]
    /\ UNCHANGED <<graphVars, cacheVars, readBackVars>>

\* struct ReadBackState (the buffer is left out: it carries no control state)
ReadBackState(callback, layer_index) == [callback |-> callback, layer_index |-> layer_index]

\* Mutant of QueueFront: the state served is the one submitted last.
QueueFront_Back(q) == q[Len(q)]

\* std::queue: front() is the oldest element, pop() removes it
QueueFront(q) == Head(q)
QueuePop(q) == Tail(q)

\* Mutant of InvokedBySubmit: the callback is invoked inside the call.
InvokedBySubmit_Sync(state) == <<state>>

\* the callbacks read_back_async invokes before it returns: none
InvokedBySubmit(state) == <<>>

\* read_back_async(layer_index, callback): queue the state, issue the copy
\* and the asynchronous map of the buffer
ReadBackAsync(layer_index) ==
    /\ Len(submitted) < MaxReadBacks
    /\ LET state == ReadBackState(Len(submitted) + 1, layer_index)
       IN /\ m_read_back_states' = Append(m_read_back_states, state)
          /\ submitted' = Append(submitted, state)
          /\ invoked' = invoked \o InvokedBySubmit(state)
    /\ UNCHANGED <<graphVars, cacheVars, layerVars>>

\* GPU-completion step: the oldest outstanding copy is mapped, its callback is
\* invoked with its layer index and the state leaves the queue
BufferMapped ==
    /\ m_read_back_states # <<>>
    /\ invoked' = Append(invoked, QueueFront(m_read_back_states))
    /\ m_read_back_states' = QueuePop(m_read_back_states)
    /\ UNCHANGED <<graphVars, cacheVars, layerVars, submitted>>

StorageNext ==
    \/ \E id \in TileIds : Store(id)
    \/ \E id \in TileIds : Clear(id)
    \/ \E layer_index \in Slots : ReadBackAsync(layer_index)
    \/ BufferMapped

\* ------------------------------------------------------------ registration
\* Mutant of at: returns the node of the first entry of the map.
at_Begin(nodes, name) ==
    nodes[CHOOSE first \in DOMAIN nodes : \A other \in DOMAIN nodes : first <= other]

\* m_nodes.at(name).get()
at(nodes, name) == nodes[name]

\* add_node: make_unique creates the next instance; it is stored under name
\* and the stored node is returned.
AddNode(name) ==
    /\ pc = "build"
    /\ Cardinality(DOMAIN m_nodes) < NumNodes
    /\ name \notin DOMAIN m_nodes
    /\ m_nodes' = [x \in DOMAIN m_nodes \cup {name} |->
                      IF x = name THEN Cardinality(DOMAIN m_nodes) + 1 ELSE m_nodes[x]]
    /\ last_add' = [name |-> name, node |-> Cardinality(DOMAIN m_nodes) + 1,
                    returned |-> at(m_nodes', name), duplicate |-> FALSE]
    /\ UNCHANGED <<tileVars, factoryVars, dataVars>>
    /\ UNCHANGED <<pc, connections, wiringVars, runVars>>

\* add_node with a name that is already registered: the assertion fails.
AddNodeDuplicate(name) ==
    /\ pc = "build"
    /\ Cardinality(DOMAIN m_nodes) < NumNodes
    /\ name \in DOMAIN m_nodes
    /\ pc' = "assert_failed"
    /\ last_add' = [name |-> name, node |-> Cardinality(DOMAIN m_nodes) + 1,
                    returned |-> NoNode, duplicate |-> TRUE]
    /\ UNCHANGED <<tileVars, factoryVars, dataVars>>
    /\ UNCHANGED <<buildVars, wiringVars, runVars>>

\* ------------------------------------------------------------------ sockets
is_socket_connected(n, i) ==
    \E k \in 1..Len(connections) :
        connections[k].in_node = n /\ connections[k].in_socket = i

\* payload type tags of the sockets: every output socket carries type 1,
\* and so does every input socket but the last one of the last node
OutputType(p, o) == 1
InputType(q, i) == IF q = NumNodes /\ i = NumIn THEN 2 ELSE 1

\* Mutant of ConnectAllowed: the payload type tags are not compared.
ConnectAllowed_NoTypeCheck(p, o, q, i) ==
    /\ p # q
    /\ ~is_socket_connected(q, i)

\* what connect requires: different nodes, input not yet connected, equal
\* payload type tags
ConnectAllowed(p, o, q, i) ==
    /\ p # q
    /\ ~is_socket_connected(q, i)
    /\ OutputType(p, o) = InputType(q, i)

\* OutputSocket::connect(InputSocket) when its requirements hold
Connect(p, o, q, i) ==
    /\ pc = "build"
    /\ Len(connections) < MaxConnections
    /\ ConnectAllowed(p, o, q, i)
    /\ connections' = Append(connections,
           [out_node |-> p, out_socket |-> o, in_node |-> q, in_socket |-> i])
    /\ UNCHANGED <<tileVars, addVars, factoryVars, dataVars>>
    /\ UNCHANGED <<pc, m_nodes, wiringVars, runVars>>

\* OutputSocket::connect(InputSocket) when a requirement fails: the contract
\* failure is fatal and no connection is made
ConnectRejected(p, o, q, i) ==
    /\ pc = "build"
    /\ ~ConnectAllowed(p, o, q, i)
    /\ pc' = "assert_failed"
    /\ UNCHANGED <<tileVars, addVars, factoryVars, dataVars>>
    /\ UNCHANGED <<buildVars, wiringVars, runVars>>

\* The nodes of the sockets connected to output socket o of node n, in
\* connect order.
RECURSIVE ConnectedOf(_, _, _)
ConnectedOf(n, o, k) ==
    IF k > Len(connections) THEN <<>>
    ELSE (IF connections[k].out_node = n /\ connections[k].out_socket = o
          THEN <<connections[k].in_node>> ELSE <<>>) \o ConnectedOf(n, o, k + 1)

\* for output_socket in output_sockets(): for connected_socket in connected_sockets()
RECURSIVE connected_nodes(_, _)
connected_nodes(n, o) ==
    IF o \notin OutSockets THEN <<>>
    ELSE ConnectedOf(n, o, 1) \o connected_nodes(n, o + 1)

\* ---------------------------------------------------------- Kahn's algorithm
\* Mutant of InDegree: counts the nodes connected to the inputs of n, so two
\* connections from the same node count once.
InDegree_Producers(n) ==
    Cardinality({connections[k].out_node :
                    k \in {j \in 1..Len(connections) : connections[j].in_node = n}})

\* Mutant of InDegree: counts every input socket of n, connected or not.
InDegree_AllInputs(n) == Cardinality(InSockets)

\* in-degree of a node: the number of its connected input sockets
InDegree(n) == Cardinality({i \in InSockets : is_socket_connected(n, i)})

\* uint32_t values
U32(k) == [hi |-> k \div HalfMod, lo |-> k % HalfMod]

\* in_degrees[node]-- on a uint32_t: 0 wraps to 2^32 - 1
Decrement(d) ==
    IF d.lo > 0 THEN [d EXCEPT !.lo = d.lo - 1]
    ELSE IF d.hi > 0 THEN [hi |-> d.hi - 1, lo |-> HalfMod - 1]
    ELSE [hi |-> HalfMod - 1, lo |-> HalfMod - 1]

\* The first loop: in_degrees of the registered nodes (an absent entry reads 0).
InitialInDegrees ==
    [n \in Insts |-> IF n \in Registered THEN U32(InDegree(n)) ELSE U32(0)]

\* Mutant of ProcessConnected: enqueues a consumer one decrement early (the
\* test reads <= 1 instead of == 0).
RECURSIVE ProcessConnected_EarlyEnqueue(_, _, _)
ProcessConnected_EarlyEnqueue(cs, deg, q) ==
    IF cs = <<>> THEN [in_degrees |-> deg, node_queue |-> q]
    ELSE LET c == Head(cs)
             d == Decrement(deg[c])
         IN ProcessConnected_EarlyEnqueue(Tail(cs), [deg EXCEPT ![c] = d],
                IF d.hi = 0 /\ d.lo <= 1 THEN Append(q, c) ELSE q)

\* The inner loops over one popped node's connected sockets: decrement the
\* uint32_t counter (operator[] inserts 0 for an unknown node) and enqueue at 0.
RECURSIVE ProcessConnected(_, _, _)
ProcessConnected(cs, deg, q) ==
    IF cs = <<>> THEN [in_degrees |-> deg, node_queue |-> q]
    ELSE LET c == Head(cs)
             d == Decrement(deg[c])
         IN ProcessConnected(Tail(cs), [deg EXCEPT ![c] = d],
                             IF d = U32(0) THEN Append(q, c) ELSE q)

\* while (!node_queue.empty())
RECURSIVE KahnLoop(_, _, _)
KahnLoop(q, deg, order) ==
    IF q = <<>> THEN [in_degrees |-> deg, topological_ordering |-> order]
    ELSE LET node == Head(q)
             r == ProcessConnected(connected_nodes(node, 1), deg, Tail(q))
         IN KahnLoop(r.node_queue, r.in_degrees, Append(order, node))

\* Mutant of Kahn: seeds the queue with every node, whatever its in-degree,
\* and leaves the counters of the seeded nodes at zero.
Kahn_SeedAll(it) ==
    [in_degrees |-> [n \in Insts |-> U32(0)], topological_ordering |-> it]

\* Mutant of Kahn: only the first node without a connected input is pushed to
\* the queue.
Kahn_SeedFirstOnly(it) ==
    KahnLoop(SubSeq(SelectSeq(it, LAMBDA n : InitialInDegrees[n] = U32(0)), 1, 1),
             InitialInDegrees, <<>>)

\* it: the order in which the loop over m_nodes visits the registered nodes
Kahn(it) ==
    KahnLoop(SelectSeq(it, LAMBDA n : InitialInDegrees[n] = U32(0)), InitialInDegrees, <<>>)

\* Mutant of CycleDetected: reports a cycle only when every counter is nonzero.
CycleDetected_AllNonzero(in_degrees) ==
    \A n \in Registered : in_degrees[n] # U32(0)

\* any in_degree left nonzero: qFatal "cycle in node graph detected"
CycleDetected(in_degrees) == \E n \in Insts : in_degrees[n] # U32(0)

\* Mutant of TriggerConnections: run_triggered starts every node without a
\* connected input instead of the first node of the ordering only.
TriggerConnections_AllSources(order) ==
    SelectSeq(order, LAMBDA n : InDegree(n) = 0)

\* Mutant of TriggerConnections: the connect call is made twice, so one
\* run_triggered invokes the first node's run twice.
TriggerConnections_Twice(order) == <<order[1], order[1]>>

\* connect(this, run_triggered, topological_ordering.front(), run)
TriggerConnections(order) == <<order[1]>>

\* Mutant of ChainConnections: the connect of the back of the ordering to the
\* graph's run_completed is missing.
ChainConnections_NoGraph(order) ==
    [i \in 1..(Len(order) - 1) |-> [sender |-> order[i], receiver |-> order[i + 1]]]

\* Mutant of ChainConnections: node i triggers node i + 2 (an off-by-one in
\* the loop), the last two nodes report to the graph.
ChainConnections_SkipOne(order) ==
    [i \in 1..Len(order) |->
        [sender |-> order[i],
         receiver |-> IF i + 1 < Len(order) THEN order[i + 2] ELSE Graph]]

\* Mutant of ChainConnections: the graph's run_completed is connected to the
\* front of the ordering instead of its back.
ChainConnections_FrontToGraph(order) ==
    [i \in 1..Len(order) |->
        IF i < Len(order) THEN [sender |-> order[i], receiver |-> order[i + 1]]
        ELSE [sender |-> order[1], receiver |-> Graph]]

\* Mutant of ChainConnections: every node's run_completed is also connected to
\* the graph's run_completed.
ChainConnections_AlsoGraph(order) ==
    [i \in 1..(2 * Len(order) - 1) |->
        IF i < Len(order) THEN [sender |-> order[i], receiver |-> order[i + 1]]
        ELSE [sender |-> order[i - Len(order) + 1], receiver |-> Graph]]

\* Mutant of ChainConnections: the chain is wired backwards, node i + 1
\* triggers node i and the front of the ordering reports to the graph.
ChainConnections_Backwards(order) ==
    [i \in 1..Len(order) |->
        [sender |-> order[i],
         receiver |-> IF i > 1 THEN order[i - 1] ELSE Graph]]

\* connect(topological_ordering[i], run_completed, topological_ordering[i + 1], run)
\* and connect(topological_ordering.back(), run_completed, this, run_completed)
ChainConnections(order) ==
    [i \in 1..Len(order) |->
        [sender |-> order[i],
         receiver |-> IF i < Len(order) THEN order[i + 1] ELSE Graph]]

\* Mutant of FailureConnections: every node's run_failed is also connected to
\* the run slot of the next node of the ordering.
FailureConnections_AlsoNext(order) ==
    {[sender |-> n, receiver |-> Graph] : n \in Registered}
        \cup {[sender |-> order[i], receiver |-> order[i + 1]] : i \in 1..(Len(order) - 1)}

\* Mutant of FailureConnections: the loop misses the last node of the ordering.
FailureConnections_SkipLast(order) ==
    {[sender |-> n, receiver |-> Graph] : n \in Registered \ {order[Len(order)]}}

\* connect(node, run_failed, this, emit_graph_failure) for every node of m_nodes
FailureConnections(order) ==
    {[sender |-> n, receiver |-> Graph] : n \in Registered}

\* The orders in which the first loop can visit m_nodes, up to what the build
\* can tell apart: it keeps of the order only that of the nodes it seeds the
\* queue with, so the other nodes are listed after them in one fixed order.
IterationOrders ==
    LET seeds == {n \in Registered : InitialInDegrees[n] = U32(0)}
    IN {order \o SetToSeq(Registered \ seeds) : order \in Perms(seeds)}

ConnectNodeSignalsAndSlots ==
    /\ pc = "build"
    /\ DOMAIN m_nodes # {}
    /\ \E it \in IterationOrders :
         LET r == Kahn(it) IN
         IF CycleDetected(r.in_degrees)
         THEN /\ pc' = "fatal"
              /\ UNCHANGED wiringVars
         ELSE /\ pc' = "ready"
              /\ topological_ordering' = r.topological_ordering
              /\ sig_run_triggered' = TriggerConnections(r.topological_ordering)
              /\ sig_run_completed' = ChainConnections(r.topological_ordering)
              /\ sig_run_failed' = FailureConnections(r.topological_ordering)
    /\ UNCHANGED <<tileVars, addVars, factoryVars, dataVars>>
    /\ UNCHANGED <<buildVars, runVars>>

\* connect_node_signals_and_slots on a graph without nodes: assert(!m_nodes.empty())
ConnectEmptyGraph ==
    /\ pc = "build"
    /\ DOMAIN m_nodes = {}
    /\ pc' = "assert_failed"
    /\ UNCHANGED <<tileVars, addVars, factoryVars, dataVars>>
    /\ UNCHANGED <<buildVars, wiringVars, runVars>>

\* ------------------------------------------------- pipeline factory calls
\* The first k add_node calls of a factory: the registry, the node each
\* variable is bound to (what add_node returned), and whether every call met
\* the assertion of add_node.
RECURSIVE FactoryAddNodes(_, _)
FactoryAddNodes(nodes, k) ==
    IF k = 0 THEN [m_nodes |-> [x \in {} |-> 0], bound |-> [x \in {} |-> 0], ok |-> TRUE]
    ELSE LET prev == FactoryAddNodes(nodes, k - 1)
             call == nodes[k]
         IN IF ~prev.ok \/ call.name \in DOMAIN prev.m_nodes
            THEN [prev EXCEPT !.ok = FALSE]
            ELSE LET reg == [x \in DOMAIN prev.m_nodes \cup {call.name} |->
                                IF x = call.name THEN Cardinality(DOMAIN prev.m_nodes) + 1
                                ELSE prev.m_nodes[x]]
                 IN [m_nodes |-> reg,
                     bound |-> [v \in DOMAIN prev.bound \cup {call.var} |->
                                   IF v = call.var THEN at(reg, call.name) ELSE prev.bound[v]],
                     ok |-> TRUE]

\* the variables bound to nodes of which the factory uses several output sockets
MultiOutputVariables(body) ==
    {v \in FactoryVariables(body) : Len(OutputSocketNames(body, v)) > 1}

\* output_socket(name) of the node bound to var: the socket's position among
\* the node's output sockets. The node classes declare the sockets; reversed
\* holds the variables whose node declares them in the opposite order to the
\* factory's first use.
OutputSocketIndex(body, var, name, reversed) ==
    LET names == OutputSocketNames(body, var)
        k == CHOOSE j \in 1..Len(names) : names[j] = name
    IN IF var \in reversed THEN Len(names) + 1 - k ELSE k

\* input_socket(name) of the node bound to var
InputSocketIndex(body, var, name) ==
    LET names == InputSocketNames(body, var)
    IN CHOOSE j \in 1..Len(names) : names[j] = name

\* Mutant of FactoryConnections: every connect call is made from the consumer's
\* node to the producer's node.
FactoryConnections_Swapped(body, bound, reversed) ==
    [k \in 1..Len(body.connects) |->
        LET c == body.connects[k]
        IN [out_node |-> bound[c.in_var],
            out_socket |-> 1,
            in_node |-> bound[c.out_var],
            in_socket |-> k]]

\* the connect calls of a factory, in source order
FactoryConnections(body, bound, reversed) ==
    [k \in 1..Len(body.connects) |->
        LET c == body.connects[k]
        IN [out_node |-> bound[c.out_var],
            out_socket |-> OutputSocketIndex(body, c.out_var, c.out_socket, reversed),
            in_node |-> bound[c.in_var],
            in_socket |-> InputSocketIndex(body, c.in_var, c.in_socket)]]

\* what connect requires of each call, given the calls before it: different
\* nodes, input socket not yet connected
FactoryConnectsAllowed(cs) ==
    \A k \in 1..Len(cs) :
        /\ cs[k].out_node # cs[k].in_node
        /\ \A j \in 1..(k - 1) :
               ~(cs[j].in_node = cs[k].in_node /\ cs[j].in_socket = cs[k].in_socket)

\* the output pointers after the factory's assignments
FactoryOutputs(body, bound) ==
    [ptr \in OutputPointers |->
        LET assigned == SelectSeq(body.outputs, LAMBDA a : a.ptr = ptr)
        IN IF assigned = <<>> THEN NotAssigned
           ELSE [node |-> bound[assigned[Len(assigned)].var],
                 member |-> assigned[Len(assigned)].member]]

\* A pipeline factory up to its last statement: make_unique<NodeGraph>(), the
\* add_node calls, the connect calls and the assignments to the output
\* pointers. Its last statement is the call of connect_node_signals_and_slots,
\* the action ConnectNodeSignalsAndSlots; no other action is enabled in between.
FactoryAssemble(f, reversed) ==
    /\ pc = "build"
    /\ factory = NoFactory
    /\ DOMAIN m_nodes = {}
    /\ connections = <<>>
    /\ factory' = f
    /\ LET body == FactoryBody(f)
           added == FactoryAddNodes(body.nodes, Len(body.nodes))
           cs == FactoryConnections(body, added.bound, reversed)
           last == body.nodes[Len(body.nodes)]
       IN IF added.ok /\ FactoryConnectsAllowed(cs)
          THEN /\ pc' = pc
               /\ m_nodes' = added.m_nodes
               /\ connections' = cs
               /\ m_output' = FactoryOutputs(body, added.bound)
               /\ nstate' = [n \in 1..Len(body.nodes) |-> "Idle"]
               /\ published' = [n \in 1..Len(body.nodes) |-> 0]
               /\ node_output' = [n \in 1..Len(body.nodes) |-> <<>>]
               /\ last_add' = [name |-> last.name, node |-> Len(body.nodes),
                               returned |-> added.bound[last.var], duplicate |-> FALSE]
          ELSE /\ pc' = "assert_failed"
               /\ UNCHANGED <<buildVars, addVars, m_output, nstate, published, dataVars>>
    /\ UNCHANGED <<tileVars, wiringVars, output_read>>
    /\ UNCHANGED <<runs, started, completed_in_run, node_failed, graph_completed,
                   graph_failures, overlap, rerun_while_running, prev_failed_at>>

\* output_hash_map(), output_texture_storage(), output_hash_map_2(),
\* output_texture_storage_2(): return *ptr. Dereferencing a pointer that was
\* never assigned is undefined: the pointer is null or indeterminate,
\* whichever the construction of the NodeGraph left.
OutputAccessor(ptr) ==
    /\ pc = "ready"
    /\ \E outcome \in (IF m_output[ptr] = NotAssigned THEN {"null", "indeterminate"}
                       ELSE {m_output[ptr].member}) :
         output_read' = [ptr |-> ptr,
                         result |-> [node |-> m_output[ptr].node, member |-> outcome]]
    /\ UNCHANGED <<tileVars, pc, buildVars, addVars, factory, m_output, dataVars,
                   wiringVars, runVars>>

\* ------------------------------------------------------------ node contents
\* The contents of the nodes are modelled for the scenario graph; a value is
\* the sequence of tile identities for which an output holds an element (an
\* identity, a payload, a cache entry with its texture).
ContentsModelled == factory = "normals_scenario_graph"

\* the class of node n and the variable the factory binds to it
KindOf(n) == FactoryBody(factory).nodes[n].kind
VariableOf(n) == FactoryBody(factory).nodes[n].var

\* what a SelectTilesNode can select: sequences of distinct tile identities
\* (every set of identities in ascending order, and all of them in descending
\* order)
Selections ==
    {SetToSeq(S) : S \in SUBSET TileIds}
        \cup {[i \in 1..NumTiles |-> SetToSeq(TileIds)[NumTiles + 1 - i]]}

\* the value on the input socket of node n named name: what the connected
\* output's node published in the current run, nothing if it has not published
InputValue(n, name) ==
    LET i == InputSocketIndex(FactoryBody(factory), VariableOf(n), name)
        k == CHOOSE j \in 1..Len(connections) :
                 connections[j].in_node = n /\ connections[j].in_socket = i
        producer == connections[k].out_node
    IN IF published[producer] = runs THEN node_output[producer] ELSE <<>>

\* a cache of the given capacity built over ids holds the identities it has
\* room for
CacheEntries(ids, capacity) ==
    IF Len(ids) <= capacity THEN ids ELSE SubSeq(ids, 1, capacity)

\* What node n publishes when it completes.
\*   SelectTilesNode: the selected identities.
\*   RequestTilesNode: a payload for each requested identity (the loader
\*     delivered each; otherwise the node fails).
\*   CreateHashMapNode: a cache entry and texture for each identity that has a
\*     payload.
\*   ComputeNormalsNode: an output cache entry and normal texture for each
\*     identity found in the input cache.
Produce(n, selection) ==
    CASE KindOf(n) = "SelectTilesNode" -> selection
      [] KindOf(n) = "RequestTilesNode" -> InputValue(n, "tile ids")
      [] KindOf(n) = "CreateHashMapNode" ->
            CacheEntries(SelectSeq(InputValue(n, "tile ids"),
                                   LAMBDA id : id \in Range(InputValue(n, "texture data"))),
                         NodeCapacity)
      [] KindOf(n) = "ComputeNormalsNode" ->
            CacheEntries(SelectSeq(InputValue(n, "tile ids"),
                                   LAMBDA id : /\ id \in Range(InputValue(n, "hash map"))
                                               /\ id \in Range(InputValue(n, "height textures"))),
                         NodeCapacity)

\* --------------------------------------------------------------------- runs
InFlight == runs > 0 /\ graph_completed = 0 /\ graph_failures = <<>>

Running == {n \in Insts : nstate[n] = "Running"}

\* Node::run invoked on each node of rs, on top of node states ns
StartedStates(ns, rs) ==
    [n \in Insts |-> IF n \in Range(rs) THEN "Running" ELSE ns[n]]

Rerun(ns, rs) ==
    \/ \E i \in 1..Len(rs) : ns[rs[i]] = "Running"
    \/ \E i, j \in 1..Len(rs) : i # j /\ rs[i] = rs[j]

\* slots connected to run_completed of node n, in connect order
CompletedReceivers(n) ==
    LET cs == SelectSeq(sig_run_completed, LAMBDA c : c.sender = n)
    IN [i \in 1..Len(cs) |-> cs[i].receiver]

\* slots connected to run_failed of node n
FailedReceivers(n) == {c.receiver : c \in {x \in sig_run_failed : x.sender = n}}

\* Mutant of RunTriggeredReceivers: after a failed run, run() resumes at the
\* node that failed instead of restarting the chain.
RunTriggeredReceivers_Resume ==
    IF graph_failures # <<>> /\ started # <<>>
    THEN <<started[Len(started)]>> ELSE sig_run_triggered

\* emit run_triggered(): the slots it invokes
RunTriggeredReceivers == sig_run_triggered

\* Mutant of Run: run() derives the ordering again, and gets the nodes of the
\* previous ordering in reverse.
Run_Rebuild ==
    /\ pc = "ready"
    /\ runs < MaxRuns
    /\ runs' = runs + 1
    /\ overlap' = (overlap \/ InFlight)
    /\ prev_failed_at' = IF graph_failures # <<>> THEN Len(started) ELSE 0
    /\ nstate' = StartedStates(nstate, RunTriggeredReceivers)
    /\ rerun_while_running' = (rerun_while_running \/ Rerun(nstate, RunTriggeredReceivers))
    /\ started' = RunTriggeredReceivers
    /\ completed_in_run' = {}
    /\ node_failed' = <<>>
    /\ graph_completed' = 0
    /\ graph_failures' = <<>>
    /\ topological_ordering' =
           [i \in 1..Len(topological_ordering) |->
               topological_ordering[Len(topological_ordering) + 1 - i]]
    /\ UNCHANGED <<tileVars, addVars, factoryVars, dataVars>>
    /\ UNCHANGED <<pc, buildVars, sig_run_triggered, sig_run_completed, sig_run_failed,
                   published>>

\* NodeGraph::run: emit run_triggered
Run ==
    /\ pc = "ready"
    /\ runs < MaxRuns
    /\ runs' = runs + 1
    /\ overlap' = (overlap \/ InFlight)
    /\ prev_failed_at' = IF graph_failures # <<>> THEN Len(started) ELSE 0
    /\ nstate' = StartedStates(nstate, RunTriggeredReceivers)
    /\ rerun_while_running' = (rerun_while_running \/ Rerun(nstate, RunTriggeredReceivers))
    /\ started' = RunTriggeredReceivers
    /\ completed_in_run' = {}
    /\ node_failed' = <<>>
    /\ graph_completed' = 0
    /\ graph_failures' = <<>>
    /\ UNCHANGED <<tileVars, addVars, factoryVars, dataVars>>
    /\ UNCHANGED <<pc, buildVars, wiringVars, published>>

\* A running node finishes: it raises run_completed, which invokes the
\* connected slots (the next node's run, or the graph's run_completed).
NodeComplete(n) ==
    /\ pc = "ready"
    /\ nstate[n] = "Running"
    /\ LET recv == CompletedReceivers(n)
           next == SelectSeq(recv, LAMBDA r : r # Graph)
           done == [nstate EXCEPT ![n] = "Completed"]
       IN /\ nstate' = StartedStates(done, next)
          /\ rerun_while_running' = (rerun_while_running \/ Rerun(done, next))
          /\ started' = started \o next
          /\ graph_completed' = graph_completed + Len(recv) - Len(next)
    /\ completed_in_run' = completed_in_run \cup {n}
    /\ published' = [published EXCEPT ![n] = runs]
    /\ IF ContentsModelled
       THEN \E selection \in (IF KindOf(n) = "SelectTilesNode" THEN Selections ELSE {<<>>}) :
                node_output' = [node_output EXCEPT ![n] = Produce(n, selection)]
       ELSE UNCHANGED node_output
    /\ UNCHANGED <<tileVars, addVars, factoryVars>>
    /\ UNCHANGED <<pc, buildVars, wiringVars, runs, node_failed, graph_failures,
                   overlap, prev_failed_at>>

\* Mutant of emit_graph_failure: reports the name of m_nodes.begin() instead of
\* the entry found for the failing node.
emit_graph_failure_FirstName(info) ==
    LET it == CHOOSE name \in DOMAIN m_nodes : \A other \in DOMAIN m_nodes : name <= other
    IN [node_name |-> it, node_run_failure_info |-> info]

\* emit_graph_failure: find the name that owns info.node(), emit run_failed
emit_graph_failure(info) ==
    LET it == CHOOSE name \in DOMAIN m_nodes : m_nodes[name] = info.node
    IN [node_name |-> it, node_run_failure_info |-> info]

\* A running node fails: it raises run_failed with its NodeRunFailureInfo.
NodeFail(n, msg) ==
    /\ pc = "ready"
    /\ nstate[n] = "Running"
    /\ LET info == [node |-> n, message |-> msg]
           recv == FailedReceivers(n)
           next == SetToSeq(recv \ {Graph})
           done == [nstate EXCEPT ![n] = "Failed"]
       IN /\ node_failed' = Append(node_failed, info)
          /\ graph_failures' = IF Graph \in recv
                               THEN Append(graph_failures, emit_graph_failure(info))
                               ELSE graph_failures
          /\ nstate' = StartedStates(done, next)
          /\ rerun_while_running' = (rerun_while_running \/ Rerun(done, next))
          /\ started' = started \o next
    /\ UNCHANGED <<tileVars, addVars, factoryVars, dataVars>>
    /\ UNCHANGED <<pc, buildVars, wiringVars, runs, completed_in_run,
                   graph_completed, overlap, prev_failed_at, published>>

\* ------------------------------------------------------------ specification
Init ==
    /\ factory = NoFactory
    /\ pc = "build"
    /\ m_nodes = [x \in {} |-> 0]
    /\ connections = <<>>
    /\ topological_ordering = <<>>
    /\ sig_run_triggered = <<>>
    /\ sig_run_completed = <<>>
    /\ sig_run_failed = {}
    /\ nstate = [n \in Insts |-> "Idle"]
    /\ runs = 0
    /\ started = <<>>
    /\ completed_in_run = {}
    /\ node_failed = <<>>
    /\ graph_completed = 0
    /\ graph_failures = <<>>
    /\ overlap = FALSE
    /\ rerun_while_running = FALSE
    /\ prev_failed_at = 0
    /\ published = [n \in Insts |-> 0]
    /\ node_output = [n \in Insts |-> <<>>]
    /\ last_add = [name |-> 0, node |-> NoNode, returned |-> NoNode, duplicate |-> FALSE]
    /\ m_output = [ptr \in OutputPointers |-> NotAssigned]
    /\ output_read = [ptr |-> "none", result |-> NotAssigned]
    /\ cache = EmptyTable
    /\ request = <<>>
    /\ prev_request = <<>>
    /\ find_result = [id |-> Empty, found |-> FALSE, slot_index |-> 0]
    /\ m_layer_index_to_tile_id = [l \in Slots |-> Unassigned]
    /\ m_read_back_states = <<>>
    /\ submitted = <<>>
    /\ invoked = <<>>
    /\ last_op = [op |-> "none", id |-> Unassigned, before |-> [l \in Slots |-> Unassigned]]

Next ==
    \/ \E name \in Names : AddNode(name)
    \/ \E name \in Names : AddNodeDuplicate(name)
    \/ \E p, q \in Insts : \E o \in OutSockets : \E i \in InSockets : Connect(p, o, q, i)
    \/ \E p, q \in Insts : \E o \in OutSockets : \E i \in InSockets : ConnectRejected(p, o, q, i)
    \/ ConnectNodeSignalsAndSlots
    \/ ConnectEmptyGraph
    \/ Run
    \/ \E n \in Insts : NodeComplete(n)
    \/ \E n \in Insts : \E msg \in Messages : NodeFail(n, msg)

Spec == Init /\ [][Next]_vars

CacheSpec == Init /\ [][CacheNext]_vars

StorageSpec == Init /\ [][StorageNext]_vars

\* The storage when the GPU eventually completes every copy it was given.
StorageFairSpec == StorageSpec /\ WF_vars(BufferMapped)

\* A started node eventually finishes its run: it reaches Completed or Failed.
NodeFinishes == \E n \in Insts : NodeComplete(n) \/ \E msg \in Messages : NodeFail(n, msg)

\* The graph under the contract that every started node eventually finishes.
FairSpec == Spec /\ WF_vars(NodeFinishes)

\* the caller of a pipeline graph issues run() only when no run is in flight
RunWhenIdle == ~InFlight /\ Run

\* Graphs assembled by the pipeline factories, their output accessors and runs.
FactoryNext ==
    \/ \E f \in Factories : \E reversed \in SUBSET MultiOutputVariables(FactoryBody(f)) :
          FactoryAssemble(f, reversed)
    \/ ConnectNodeSignalsAndSlots
    \/ \E ptr \in OutputPointers : OutputAccessor(ptr)
    \/ RunWhenIdle
    \/ \E n \in Insts : NodeComplete(n)
    \/ \E n \in Insts : \E msg \in Messages : NodeFail(n, msg)

FactorySpec == Init /\ [][FactoryNext]_vars

\* The scenario graph with the contents of its nodes; a node that was started
\* finishes, by completing or by failing.
ScenarioNext ==
    \/ \E reversed \in SUBSET MultiOutputVariables(normals_scenario_graph) :
          FactoryAssemble("normals_scenario_graph", reversed)
    \/ ConnectNodeSignalsAndSlots
    \/ RunWhenIdle
    \/ \E n \in Insts : NodeComplete(n)
    \/ \E n \in Insts : \E msg \in Messages : NodeFail(n, msg)

ScenarioSpec == Init /\ [][ScenarioNext]_vars /\ WF_vars(NodeFinishes)

\* ------------------------------------------------------------------ claims
\* the producers of the connected input sockets of node n
Producers(n) == {connections[k].out_node : k \in {j \in 1..Len(connections) : connections[j].in_node = n}}

\* producer -> consumer edges between registered nodes
Edges ==
    {<<connections[k].out_node, connections[k].in_node>> :
        k \in {j \in 1..Len(connections) :
                  connections[j].out_node \in Registered /\ connections[j].in_node \in Registered}}

RECURSIVE TransitiveClosure(_, _)
TransitiveClosure(R, k) ==
    IF k = 0 THEN R
    ELSE TransitiveClosure(
             R \cup {<<a, c>> \in Insts \X Insts : \E b \in Insts : <<a, b>> \in R /\ <<b, c>> \in R},
             k - 1)

\* the wiring among the registered nodes contains a directed cycle
HasCycle == \E n \in Insts : <<n, n>> \in TransitiveClosure(Edges, NumNodes)

\* a connected socket belongs to a node that is not in m_nodes
TouchesUnregistered ==
    \E k \in 1..Len(connections) :
        connections[k].out_node \notin Registered \/ connections[k].in_node \notin Registered

\* a and b occur in order, and every occurrence of a precedes every one of b
Before(order, a, b) ==
    /\ a \in Range(order)
    /\ b \in Range(order)
    /\ \A i, j \in 1..Len(order) : (order[i] = a /\ order[j] = b) => i < j

CleanRun == pc = "ready" /\ runs > 0 /\ ~overlap

Notifications == graph_completed + Len(graph_failures)

\* C1: for an acyclic wiring of registered nodes the build computes an
\* ordering, and in it the producer of every connection appears strictly
\* before the consumer.
C1_TopologicalOrder ==
    /\ pc = "ready" =>
         \A k \in 1..Len(connections) :
             (connections[k].out_node \in Registered \/ connections[k].in_node \in Registered) =>
                 Before(topological_ordering, connections[k].out_node, connections[k].in_node)
    /\ pc = "fatal" => (HasCycle \/ TouchesUnregistered)

C1_Witness ==
    /\ pc = "ready"
    /\ Len(topological_ordering) = 3
    /\ Len(connections) = 3
    /\ \E j, k \in 1..Len(connections) : connections[j].out_node # connections[k].out_node

\* C2: a run starts the nodes in chain order, each once; when every node
\* completes, exactly the N nodes of the chain were started; when node k
\* fails, no node after k is started and the graph raises run_failed.
C2_ChainRun ==
    CleanRun =>
        /\ IsPrefix(started, topological_ordering)
        /\ \A i, j \in 1..Len(started) : i # j => started[i] # started[j]
        /\ (Running = {} /\ node_failed = <<>>) => started = topological_ordering
        /\ node_failed # <<>> =>
             /\ Running = {}
             /\ started[Len(started)] = node_failed[1].node
             /\ Len(graph_failures) = 1

C2_Witness ==
    /\ CleanRun
    /\ Len(topological_ordering) = 3
    /\ node_failed # <<>>
    /\ Len(started) = 2
    /\ nstate[topological_ordering[3]] = "Idle"

\* C3: a run in which every started node raised one of run_completed and
\* run_failed has raised exactly one graph-level notification, and no run
\* raises more than one.
C3_ExactlyOneNotification ==
    CleanRun =>
        /\ Notifications <= 1
        /\ Running = {} => Notifications = 1

C3_Witness ==
    /\ CleanRun
    /\ Len(topological_ordering) >= 2
    /\ node_failed # <<>>
    /\ node_failed[1].node = topological_ordering[Len(topological_ordering)]
    /\ Len(graph_failures) = 1
    /\ graph_completed = 0

\* C4: a wiring with a directed cycle ends the build with the fatal cycle
\* error, before any signal connection is made; no node is ever run.
C4_CycleIsFatal ==
    /\ (pc \in {"ready", "fatal"} /\ HasCycle) => pc = "fatal"
    /\ pc = "fatal" =>
         /\ sig_run_triggered = <<>> /\ sig_run_completed = <<>> /\ sig_run_failed = {}
         /\ runs = 0 /\ started = <<>>
         /\ \A n \in Insts : nstate[n] = "Idle"

C4_Witness ==
    /\ pc = "fatal"
    /\ HasCycle
    /\ ~TouchesUnregistered
    /\ Cardinality(Registered) >= 2
    /\ \A n \in Registered : InDegree(n) > 0

\* C5: when a node's run is started, every producer of its connected inputs
\* has completed in the same run.
C5_ProducersCompleted ==
    CleanRun => \A i \in 1..Len(started) : Producers(started[i]) \subseteq completed_in_run

C5_Witness ==
    /\ CleanRun
    /\ \E i \in 1..Len(started) : Cardinality(Producers(started[i])) = 2
    /\ \E j, k \in 1..Len(connections) :
          /\ j # k
          /\ connections[j].out_node = connections[k].out_node
          /\ connections[j].out_socket = connections[k].out_socket
          /\ connections[j].in_node # connections[k].in_node

LastNode == topological_ordering[Len(topological_ordering)]

\* C6: the graph raises run_completed exactly in the step in which the last
\* node of the chain raises run_completed, and then every registered node has
\* completed in the current run.
C6_GraphCompletion ==
    /\ [](CleanRun /\ graph_completed > 0 =>
            /\ graph_completed = 1
            /\ completed_in_run = Registered
            /\ \A n \in Registered : nstate[n] = "Completed")
    /\ [][(pc = "ready" /\ runs' = runs) =>
            ((graph_completed' # graph_completed) <=>
             (nstate[LastNode] = "Running" /\ nstate'[LastNode] = "Completed"))]_vars

C6_Witness ==
    /\ CleanRun
    /\ graph_completed = 1
    /\ Cardinality(Registered) = 3
    /\ \E n \in Registered : Producers(n) = {} /\ n # topological_ordering[1]

\* C7: every run_failed of a node makes the graph raise run_failed once, with
\* the name under which the failing node is registered and the node's own
\* failure info.
C7_FailureAttribution ==
    pc = "ready" =>
        /\ Len(graph_failures) = Len(node_failed)
        /\ \A i \in 1..Len(graph_failures) :
              /\ i <= Len(node_failed)
              /\ graph_failures[i].node_run_failure_info = node_failed[i]
              /\ graph_failures[i].node_name \in DOMAIN m_nodes
              /\ m_nodes[graph_failures[i].node_name] = node_failed[i].node

C7_Witness ==
    /\ pc = "ready"
    /\ Len(graph_failures) = 1
    /\ Cardinality(Registered) = 3
    /\ graph_failures[1].node_name # 100 + node_failed[1].node
    /\ \E name \in DOMAIN m_nodes : name < graph_failures[1].node_name
    /\ node_failed[1].message = 2

\* C8: a run() issued after the previous run ended, by completion or by a
\* failure at any node, starts at the first node of the chain and follows the
\* same chain; it completes when every node completes.
C8_RerunRestarts ==
    (CleanRun /\ runs >= 2) =>
        /\ started # <<>>
        /\ started[1] = topological_ordering[1]
        /\ IsPrefix(started, topological_ordering)
        /\ (Running = {} /\ node_failed = <<>>) =>
              (graph_completed = 1 /\ started = topological_ordering)

C8_Witness ==
    /\ CleanRun
    /\ runs = 2
    /\ Len(topological_ordering) = 3
    /\ prev_failed_at = 2
    /\ graph_completed = 1

\* C9 as claimed: never more than one traversal of the chain in flight, also
\* when run() is issued during a run.
C9_NoSecondTraversal ==
    pc = "ready" => (Cardinality(Running) <= 1 /\ ~rerun_while_running)

\* C9 as amended: when run() is only issued while no run is in flight, at most
\* one node is running at any time.
C9_OneTraversalIfNoOverlap ==
    (pc = "ready" /\ ~overlap) => Cardinality(Running) <= 1

C9_Witness ==
    /\ pc = "ready"
    /\ ~overlap
    /\ runs = 2
    /\ Cardinality(Running) = 1
    /\ Len(started) = 2

\* number of terminal notifications node n raised in the current run
Terminal(n) ==
    (IF n \in completed_in_run THEN 1 ELSE 0)
    + Cardinality({i \in 1..Len(node_failed) : node_failed[i].node = n})

\* C10: every started node raises exactly one terminal notification once it
\* leaves Running and none before; run_completed of a node is connected to the
\* next node's run only (to the graph for the last node), run_failed to the
\* graph only.
C10_NodeNotifications ==
    /\ pc = "ready" =>
         /\ \A i \in 1..Len(topological_ordering) :
               CompletedReceivers(topological_ordering[i]) =
                  <<IF i < Len(topological_ordering)
                    THEN topological_ordering[i + 1] ELSE Graph>>
         /\ \A n \in Registered : FailedReceivers(n) = {Graph}
    /\ CleanRun =>
         \A n \in Insts :
            /\ n \notin Range(started) => (Terminal(n) = 0 /\ nstate[n] # "Running")
            /\ n \in Range(started) =>
                 \/ nstate[n] = "Running" /\ Terminal(n) = 0
                 \/ nstate[n] = "Completed" /\ Terminal(n) = 1 /\ n \in completed_in_run
                 \/ nstate[n] = "Failed" /\ Terminal(n) = 1 /\ n \notin completed_in_run

C10_Witness ==
    /\ CleanRun
    /\ Len(topological_ordering) = 3
    /\ completed_in_run # {}
    /\ node_failed # <<>>
    /\ runs = 2

\* C11: when graph runs do not overlap, no node's run is invoked while that
\* node is still Running.
C11_NoRerunWhileRunning ==
    (pc = "ready" /\ ~overlap) => ~rerun_while_running

C11_Witness ==
    /\ CleanRun
    /\ runs = 2
    /\ Len(started) = 3
    /\ ~rerun_while_running
    /\ nstate[started[3]] = "Running"

\* the nodes that raised run_failed in the current run
FailedInRun == {node_failed[i].node : i \in 1..Len(node_failed)}

\* C12: in a run that does not overlap another, a node that failed has
\* published no outputs for that run, it is the last node that was started (no
\* node after it in the chain is started), and no started node has a producer
\* that failed in the run or a registered producer without outputs of the run.
C12_FailedPublishesNothing ==
    (CleanRun /\ node_failed # <<>>) =>
        /\ Len(node_failed) = 1
        /\ \A n \in FailedInRun :
              /\ published[n] # runs
              /\ started[Len(started)] = n
              /\ \A i, j \in 1..Len(topological_ordering) :
                    (topological_ordering[i] = n /\ i < j) =>
                        topological_ordering[j] \notin Range(started)
        /\ \A n \in Range(started) : \A p \in Producers(n) :
              /\ p \notin FailedInRun
              /\ p \in Registered => published[p] = runs

C12_Witness ==
    /\ CleanRun
    /\ Len(topological_ordering) = 3
    /\ Len(started) = 2
    /\ FailedInRun = {started[2]}
    /\ published[started[1]] = runs
    /\ started[2] \in Producers(topological_ordering[3])

\* C13: provided every started node eventually finishes, a triggered run that
\* is in flight eventually raises run_completed or run_failed on the graph, and
\* in no state after a trigger is the chain stuck with no node Running and no
\* graph-level notification raised.
C13_RunEventuallyNotifies ==
    /\ [](pc = "ready" /\ runs > 0 /\ Running = {} => Notifications >= 1)
    /\ (pc = "ready" /\ InFlight) ~> (Notifications >= 1)

C13_Witness ==
    /\ CleanRun
    /\ runs = 2
    /\ Len(started) = 3
    /\ Running = {}
    /\ graph_completed = 1

\* the identities find reports as present, and the slot find returns
Found == {id \in TileIds : find(cache, id).found}
SlotOf(id) == find(cache, id).slot_index

\* the slots returned for the identities of S are valid and pairwise distinct
ValidDistinctSlots(S) ==
    /\ \A id \in S : SlotOf(id) \in Slots
    /\ \A a, b \in S : SlotOf(a) = SlotOf(b) => a = b

\* C14: after a build over M <= C distinct identities find reports exactly the
\* M identities as found, with pairwise distinct slot indices in [0, C); the
\* result a find call returned agrees with this.
C14_BuildWithinCapacity ==
    (request # <<>> /\ Len(request) <= Capacity) =>
        /\ Found = Range(request)
        /\ ValidDistinctSlots(Range(request))
        /\ find_result.id # Empty =>
              /\ find_result.found = (find_result.id \in Range(request))
              /\ find_result.found => find_result.slot_index = SlotOf(find_result.id)

C14_Witness ==
    /\ Len(request) = Capacity
    /\ hash(request[1]) = hash(request[2])
    /\ find_result.id = request[2]
    /\ find_result.found
    /\ find_result.slot_index = 1

\* the identities of the latest request that fit the capacity, and the excess
Accepted == {request[i] : i \in {j \in 1..Len(request) : j <= Capacity}}
Excess == Range(request) \ Accepted

\* C15: a build over M > C identities inserts exactly C of them: the first C
\* of the input sequence, so the choice is a function of the sequence; the
\* excess identities are not found, and the C inserted ones have valid and
\* pairwise distinct slots.
C15_BuildBeyondCapacity ==
    Len(request) > Capacity =>
        /\ Cardinality(Found) = Capacity
        /\ Found = Accepted
        /\ \A id \in Excess : ~find(cache, id).found
        /\ ValidDistinctSlots(Accepted)
        /\ (find_result.id \in Excess) => ~find_result.found

C15_Witness ==
    /\ Len(request) = Capacity + 1
    /\ find_result.id = request[Capacity + 1]
    /\ ~find_result.found
    /\ hash(request[Capacity + 1]) = hash(request[1])
    /\ Cardinality(Found) = Capacity

\* C16: after a second build whose identities are disjoint from those of the
\* build before it, no identity of the earlier build is found, the key array
\* holds no key of the earlier build, and every identity of the second build
\* that fits the capacity is found.
C16_RebuildReplaces ==
    (prev_request # <<>> /\ Range(prev_request) \cap Range(request) = {}) =>
        /\ \A id \in Range(prev_request) : ~find(cache, id).found
        /\ \A p \in Slots : cache.keys[p] \notin Range(prev_request)
        /\ \A id \in Accepted : find(cache, id).found
        /\ (find_result.id \in Range(prev_request)) => ~find_result.found

C16_Witness ==
    /\ Len(prev_request) = 2
    /\ Len(request) = 2
    /\ Range(prev_request) \cap Range(request) = {}
    /\ find_result.id = prev_request[1]
    /\ ~find_result.found
    /\ Found = Range(request)

\* C17: the callback invocations are at every time a prefix of the submitted
\* requests (submission order, each at most once, each with the layer_index of
\* its own request), the requests not yet invoked are exactly the queued ones,
\* and every submitted request's callback is eventually invoked.
C17_ReadBackFifoOnce ==
    /\ [](/\ IsPrefix(invoked, submitted)
          /\ invoked \o m_read_back_states = submitted
          /\ \A i \in 1..Len(submitted) : submitted[i].callback = i)
    /\ \A k \in 1..MaxReadBacks : (Len(submitted) >= k) ~> (Len(invoked) >= k)

C17_Witness ==
    /\ Len(submitted) = 3
    /\ invoked = submitted
    /\ submitted[1].layer_index # submitted[2].layer_index
    /\ m_read_back_states = <<>>

\* C18: a read_back_async call invokes no callback; a callback is invoked
\* only by a GPU-completion step, which serves a request queued by an earlier
\* call.
C18_NeverSynchronous ==
    [][/\ submitted' # submitted => invoked' = invoked
       /\ invoked' # invoked =>
             /\ submitted' = submitted
             /\ m_read_back_states # <<>>
             /\ invoked' = Append(invoked, Head(m_read_back_states))]_vars

C18_Witness ==
    /\ Len(m_read_back_states) = 2
    /\ Len(invoked) = 1
    /\ invoked[1] = submitted[1]

LinksCompatible(c) ==
    /\ c.out_node # c.in_node
    /\ OutputType(c.out_node, c.out_socket) = InputType(c.in_node, c.in_socket)

\* C20: every established connection links an output socket to an input
\* socket of a different node with the same payload type and every input
\* socket has at most one connection; a step that adds a connection adds one
\* such connection and is not fatal, and a step that ends the build by a
\* contract failure leaves the connections as they were.
C20_ConnectContract ==
    /\ [](/\ \A k \in 1..Len(connections) : LinksCompatible(connections[k])
          /\ \A j, k \in 1..Len(connections) :
                (/\ connections[j].in_node = connections[k].in_node
                 /\ connections[j].in_socket = connections[k].in_socket) => j = k)
    /\ [][/\ connections' # connections =>
                /\ pc' = pc
                /\ \E c \in [out_node : Insts, out_socket : OutSockets,
                             in_node : Insts, in_socket : InSockets] :
                      /\ connections' = Append(connections, c)
                      /\ LinksCompatible(c)
                      /\ ~is_socket_connected(c.in_node, c.in_socket)
          /\ pc' = "assert_failed" => connections' = connections]_vars

\* a connect into the type-2 input failed after connections were made, and
\* they are all still there
C20_Witness ==
    /\ pc = "assert_failed"
    /\ m_nodes = [x \in {} |-> 0]
    /\ Len(connections) = MaxConnections
    /\ \E k \in 1..Len(connections) :
          connections[k].in_node = NumNodes /\ connections[k].in_socket < NumIn

\* the registry maps no two names to the same node
UniqueNodes == \A a, b \in DOMAIN m_nodes : m_nodes[a] = m_nodes[b] => a = b

\* C21: node names are unique. add_node with a registered name is fatal (the
\* assertion fails) and leaves the registry as it was, the new node not being
\* added; add_node with a fresh name registers the new node under that name
\* and returns that node.
C21_UniqueNames ==
    /\ [](/\ UniqueNodes
          /\ last_add.duplicate =>
                /\ pc = "assert_failed"
                /\ last_add.name \in DOMAIN m_nodes
                /\ last_add.node \notin Registered
          /\ (~last_add.duplicate /\ last_add.node # NoNode) =>
                /\ last_add.name \in DOMAIN m_nodes
                /\ m_nodes[last_add.name] = last_add.node
                /\ last_add.returned = last_add.node)
    /\ [][/\ (last_add'.duplicate /\ ~last_add.duplicate) => m_nodes' = m_nodes
          /\ m_nodes' # m_nodes =>
                /\ pc' = pc
                /\ last_add'.name \notin DOMAIN m_nodes
                /\ DOMAIN m_nodes' = DOMAIN m_nodes \cup {last_add'.name}
                /\ \A name \in DOMAIN m_nodes : m_nodes'[name] = m_nodes[name]]_vars

C21_Witness ==
    /\ last_add.duplicate
    /\ Cardinality(DOMAIN m_nodes) = 2
    /\ m_nodes[last_add.name] = 1
    /\ connections # <<>>

\* the member of a node an output pointer has to point to
MemberOf(ptr) ==
    IF ptr \in {"m_output_hash_map_ptr", "m_output_hash_map_ptr_2"} THEN "hash_map"
    ELSE "texture_storage"

\* ref is the cache or storage, as ptr requires, of a node registered in the graph
RefersToRegistered(ref, ptr) == ref.node \in Registered /\ ref.member = MemberOf(ptr)

\* C22: when a pipeline factory has returned, each of the four output
\* accessors refers to the cache or storage of a node registered in the same
\* graph (the pointer it dereferences was set by the factory, and a call of the
\* accessor returns such a member), and no step after the factory's return,
\* run() included, changes the output pointers.
C22_OutputsSet ==
    /\ []((pc = "ready" /\ factory # NoFactory) =>
            \A ptr \in OutputPointers : RefersToRegistered(m_output[ptr], ptr))
    /\ [](output_read.ptr # "none" =>
            RefersToRegistered(output_read.result, output_read.ptr))
    /\ [][pc = "ready" => m_output' = m_output]_vars

\* a factory has returned a graph with every output pointer set, and the
\* secondary cache accessor was called on it
C22_Witness ==
    /\ pc = "ready"
    /\ factory = "create_normal_with_snow_compute_graph"
    /\ output_read.ptr = "m_output_hash_map_ptr_2"
    /\ RefersToRegistered(output_read.result, output_read.ptr)
    /\ runs > 0

\* the identities the SelectTilesNode published in the current run, and the
\* output cache of the ComputeNormalsNode
SelectedTiles == node_output[m_nodes["select_tiles_node"]]
NormalsOutputCache == node_output[m_nodes["compute_normals_node"]]

\* a run of the scenario graph for which 4 distinct identities were selected
FourTilesRun ==
    /\ ContentsModelled
    /\ pc = "ready"
    /\ runs > 0
    /\ published[m_nodes["select_tiles_node"]] = runs
    /\ Len(SelectedTiles) = 4

\* C23: in the graph SelectTiles -> RequestTiles -> BuildCache ->
\* ComputeNormals, a run for which 4 distinct tile identities are selected and
\* in which no node fails (the loader delivers a payload for each identity)
\* never raises the graph's failure notification and reaches the graph's
\* completion, raised once; the output cache of ComputeNormals then holds
\* exactly 4 entries, one for each of the 4 selected identities.
C23_EndToEnd ==
    /\ []((FourTilesRun /\ node_failed = <<>>) => graph_failures = <<>>)
    /\ []((FourTilesRun /\ graph_completed > 0) =>
            /\ graph_completed = 1
            /\ graph_failures = <<>>
            /\ completed_in_run = Registered
            /\ Len(NormalsOutputCache) = 4
            /\ Range(NormalsOutputCache) = Range(SelectedTiles)
            /\ Cardinality(Range(NormalsOutputCache)) = 4)
    /\ (FourTilesRun /\ InFlight) ~> (graph_completed = 1 \/ node_failed # <<>>)

\* the second run of the scenario graph completed for 4 identities, selected
\* in descending order
C23_Witness ==
    /\ FourTilesRun
    /\ runs = 2
    /\ graph_completed = 1
    /\ SelectedTiles[1] > SelectedTiles[2]
    /\ Len(NormalsOutputCache) = 4

\* the nodes without a connected input socket
Seeds == {n \in Registered : InDegree(n) = 0}

\* in a run that does not overlap another the nodes run one after another in
\* chain order: a node is started only when every node started before it has
\* completed, so no two nodes are Running together
OneAfterAnother ==
    CleanRun =>
        /\ Cardinality(Running) <= 1
        /\ IsPrefix(started, topological_ordering)
        /\ \A i \in 1..(Len(started) - 1) : started[i] \in completed_in_run

\* C24 as stated: nodes run one after another, and ties between ready nodes
\* are broken by the order of the add_node calls, so that the chain is the one
\* the build computes when it visits the nodes in insertion order.
C24_InsertionOrderTieBreak ==
    /\ OneAfterAnother
    /\ pc = "ready" =>
         topological_ordering = Kahn(SetToSeq(Registered)).topological_ordering

\* C24 (amended): nodes run one after another, and ties between ready nodes
\* are broken by the order in which the loop over m_nodes visits them, which
\* need not be the insertion order: the chain starts with the nodes without a
\* connected input in some order, and the rest of the chain is determined by
\* that order and the wiring.
C24_IterationOrderTieBreak ==
    /\ OneAfterAnother
    /\ pc = "ready" =>
         /\ Len(topological_ordering) >= Cardinality(Seeds)
         /\ LET prefix == SubSeq(topological_ordering, 1, Cardinality(Seeds))
            IN /\ Range(prefix) = Seeds
               /\ topological_ordering =
                      KahnLoop(prefix, InitialInDegrees, <<>>).topological_ordering

\* two nodes without a connected input, the one added later first in the
\* chain, and a run that has started both
C24_Witness ==
    /\ CleanRun
    /\ Cardinality(Seeds) >= 2
    /\ connections # <<>>
    /\ topological_ordering[1] > topological_ordering[2]
    /\ {topological_ordering[1], topological_ordering[2]} \subseteq Seeds
    /\ Len(started) >= 2

\* s lists every element of S exactly once
IsPermutationOf(s, S) == Len(s) = Cardinality(S) /\ Range(s) = S

\* the nodes that take part in no connection
Isolated ==
    {n \in Registered : \A k \in 1..Len(connections) :
        connections[k].out_node # n /\ connections[k].in_node # n}

\* C25: for an acyclic wiring of the registered nodes of a non-empty graph the
\* build does not report a cycle and the ordering it computes lists every
\* registered node exactly once, whatever the number of connections between
\* two nodes and including nodes without any connection; the trigger, the
\* chain and the failure connections are wired from this complete ordering.
C25_OrderingIsPermutation ==
    /\ pc = "ready" =>
         /\ Registered # {}
         /\ IsPermutationOf(topological_ordering, Registered)
         /\ sig_run_triggered = <<topological_ordering[1]>>
         /\ [i \in 1..Len(sig_run_completed) |-> sig_run_completed[i].sender]
                = topological_ordering
         /\ {c.sender : c \in sig_run_failed} = Registered
    /\ (pc = "fatal" /\ ~TouchesUnregistered) => HasCycle

\* a built graph of three nodes: an output connected to both inputs of one
\* node, and a node without any connection
C25_Witness ==
    /\ pc = "ready"
    /\ Len(topological_ordering) = 3
    /\ Isolated # {}
    /\ \E j, k \in 1..Len(connections) :
          /\ j # k
          /\ connections[j].out_node = connections[k].out_node
          /\ connections[j].in_node = connections[k].in_node
    /\ runs > 0

\* the connections made to input sockets of node n
ConnectionsInto(n) == {k \in 1..Len(connections) : connections[k].in_node = n}

\* the input sockets of node n that are not connected
Unconnected(n) == {i \in InSockets : ~is_socket_connected(n, i)}

\* C26: the in-degree of a node is the number of its connected input sockets
\* (one per connection made to it; an unconnected input socket adds nothing);
\* in a built graph the nodes without a connected input are the first nodes of
\* the ordering (they are in the queue before any node is popped), every node
\* with an unconnected input is in the ordering, and the build of a graph
\* without connections never reports a cycle.
C26_InDegreeCountsConnected ==
    /\ \A n \in Registered :
          /\ InDegree(n) = Cardinality(ConnectionsInto(n))
          /\ InDegree(n) + Cardinality(Unconnected(n)) = Cardinality(InSockets)
          /\ InitialInDegrees[n] = U32(Cardinality(ConnectionsInto(n)))
    /\ pc = "ready" =>
          /\ \A i, j \in 1..Len(topological_ordering) :
                (/\ topological_ordering[i] \in Seeds
                 /\ topological_ordering[j] \notin Seeds) => i < j
          /\ \A n \in Registered : Unconnected(n) # {} => n \in Range(topological_ordering)
    /\ pc = "fatal" => connections # <<>>

\* a built graph that ran to completion with a node that has no connected
\* input, a node with one connected and one unconnected input, and a node with
\* both inputs connected
C26_Witness ==
    /\ CleanRun
    /\ graph_completed = 1
    /\ \E a, b, c \in Registered :
          /\ Cardinality(Unconnected(a)) = 2
          /\ Cardinality(Unconnected(b)) = 1
          /\ Cardinality(Unconnected(c)) = 0
          /\ {a, b, c} \subseteq completed_in_run

\* producer -> consumer edges of all connections, whether or not their nodes
\* were added to the graph
WiringEdges ==
    {<<connections[k].out_node, connections[k].in_node>> : k \in 1..Len(connections)}

\* the wiring contains a directed cycle
WiringHasCycle == \E n \in Insts : <<n, n>> \in TransitiveClosure(WiringEdges, NumNodes)

\* C27: the build reports the fatal cycle error only for a wiring that
\* contains a directed cycle; for a wiring without one, also when a connected
\* socket belongs to a node that was never added, every in-degree counter ends
\* at exactly zero (no counter wraps below zero).
C27_FatalOnlyOnCycle ==
    /\ pc = "fatal" => WiringHasCycle
    /\ (pc \in {"ready", "fatal"} /\ ~WiringHasCycle) =>
          \A it \in IterationOrders : \A n \in Insts : Kahn(it).in_degrees[n] = U32(0)

\* the build ended with the cycle error on a wiring without a cycle in which
\* an output of a registered node is connected to a node that was never added
C27_Witness ==
    /\ pc = "fatal"
    /\ ~WiringHasCycle
    /\ \E k \in 1..Len(connections) :
          /\ connections[k].out_node \in Registered
          /\ connections[k].in_node \notin Registered
          /\ \E it \in IterationOrders :
                Kahn(it).in_degrees[connections[k].in_node] =
                    [hi |-> HalfMod - 1, lo |-> HalfMod - 1]

\* C28: once the graph is built, no step (run(), a node completing, a node
\* failing with emit_graph_failure, an output accessor) changes the node
\* registry, the socket connections, the ordering, the trigger, chain and
\* failure connections, or the output pointers; the ordering is set only by
\* the step that builds the graph; a run changes only the run state of the
\* nodes, what they published, and the notifications of the run.
C28_RunLeavesGraphUnchanged ==
    /\ [][pc = "ready" =>
            /\ pc' = "ready"
            /\ m_nodes' = m_nodes
            /\ connections' = connections
            /\ topological_ordering' = topological_ordering
            /\ sig_run_triggered' = sig_run_triggered
            /\ sig_run_completed' = sig_run_completed
            /\ sig_run_failed' = sig_run_failed
            /\ m_output' = m_output
            /\ factory' = factory]_vars
    /\ [][topological_ordering' # topological_ordering =>
            (pc = "build" /\ pc' = "ready" /\ topological_ordering = <<>>)]_vars
    /\ [][(runs' # runs \/ graph_failures' # graph_failures) =>
            (pc = "ready" /\ UNCHANGED <<tileVars, addVars, output_read>>)]_vars

\* a pipeline graph with all four output pointers set whose first run
\* completed and whose second run failed at its third node
C28_Witness ==
    /\ pc = "ready"
    /\ \A ptr \in OutputPointers : m_output[ptr] # NotAssigned
    /\ runs = 2
    /\ prev_failed_at = 0
    /\ Len(graph_failures) = 1
    /\ Len(started) = 3

\* the nodes that own a designated graph output
OutputOwners == {m_output[ptr].node : ptr \in {q \in OutputPointers : m_output[q] # NotAssigned}}

\* C29: for each of the five pipeline factories the add_node and connect calls
\* meet their assertions, the topological build ends without the cycle error
\* whatever the iteration order of m_nodes, the ordering lists every node the
\* factory registered exactly once and starts with a SelectTilesNode, and no
\* node that owns a designated graph output has an outgoing connection.
C29_FactoriesBuild ==
    factory \in Factories =>
        /\ pc \in {"build", "ready"}
        /\ Cardinality(Registered) = Len(FactoryBody(factory).nodes)
        /\ Len(connections) = Len(FactoryBody(factory).connects)
        /\ pc = "build" => \A it \in IterationOrders : ~CycleDetected(Kahn(it).in_degrees)
        /\ OutputOwners # {}
        /\ \A n \in OutputOwners : \A k \in 1..Len(connections) : connections[k].out_node # n
        /\ pc = "ready" =>
              /\ IsPermutationOf(topological_ordering, Registered)
              /\ KindOf(topological_ordering[1]) = "SelectTilesNode"

\* the graph of create_avalanche_trajectories_compute_graph, built with its
\* ten nodes, after a run in which every node completed
C29_Witness ==
    /\ factory = "create_avalanche_trajectories_compute_graph"
    /\ pc = "ready"
    /\ Len(topological_ordering) = 10
    /\ graph_completed = 1
    /\ completed_in_run = Registered
    /\ Cardinality(OutputOwners) = 2

\* the node whose output is connected to the input socket of node n named name
ProducerOf(n, name) ==
    LET i == InputSocketIndex(FactoryBody(factory), VariableOf(n), name)
        k == CHOOSE j \in 1..Len(connections) :
                 connections[j].in_node = n /\ connections[j].in_socket = i
    IN connections[k].out_node

\* node n downsamples the snow branch
DownsamplesSnow(n) ==
    /\ ProducerOf(n, "hash map") = m_nodes["compute_snow_node"]
    /\ ProducerOf(n, "textures") = m_nodes["upsample_snow_textures_node"]

\* node n downsamples the normals branch
DownsamplesNormals(n) ==
    /\ ProducerOf(n, "hash map") = m_nodes["compute_normals_node"]
    /\ ProducerOf(n, "textures") = m_nodes["upsample_textures_node"]

\* C30: in the graph of create_normal_with_snow_compute_graph the node
\* registered as 'downsample_snow_tiles_node' is wired to the snow branch and
\* owns the secondary outputs, the node registered as 'downsample_tiles_node'
\* is wired to the normals branch and owns the primary outputs, and a failure
\* of the node that downsamples the snow branch is reported with node_name
\* 'downsample_snow_tiles_node'.
C30_SnowDownsampleName ==
    (factory = "create_normal_with_snow_compute_graph" /\ pc = "ready") =>
        /\ DownsamplesSnow(m_nodes["downsample_snow_tiles_node"])
        /\ m_output["m_output_hash_map_ptr_2"].node = m_nodes["downsample_snow_tiles_node"]
        /\ m_output["m_output_texture_storage_ptr_2"].node = m_nodes["downsample_snow_tiles_node"]
        /\ DownsamplesNormals(m_nodes["downsample_tiles_node"])
        /\ m_output["m_output_hash_map_ptr"].node = m_nodes["downsample_tiles_node"]
        /\ m_output["m_output_texture_storage_ptr"].node = m_nodes["downsample_tiles_node"]
        /\ \A i \in 1..Len(graph_failures) :
              (/\ KindOf(graph_failures[i].node_run_failure_info.node) = "DownsampleTilesNode"
               /\ DownsamplesSnow(graph_failures[i].node_run_failure_info.node))
                  => graph_failures[i].node_name = "downsample_snow_tiles_node"

\* the node that downsamples the snow branch failed in a run, and the graph
\* reported the failure with node_name 'downsample_tiles_node'
C30_Witness ==
    /\ factory = "create_normal_with_snow_compute_graph"
    /\ pc = "ready"
    /\ Len(graph_failures) = 1
    /\ KindOf(graph_failures[1].node_run_failure_info.node) = "DownsampleTilesNode"
    /\ DownsamplesSnow(graph_failures[1].node_run_failure_info.node)
    /\ graph_failures[1].node_name = "downsample_tiles_node"
    /\ m_output["m_output_hash_map_ptr_2"].node = m_nodes["downsample_tiles_node"]

=============================================================================
